---- MODULE Spec2Model ----
(***************************************************************************)
(* Model of the workflow-automation core of mastra-pilot:                  *)
(*   packages/core/src/base-step.ts      BaseStep.execute                  *)
(*   packages/core/src/workflow.ts       Workflow.addStep / execute        *)
(*   packages/core/src/runner.ts         Runner.registerWorkflow/runWorkflow*)
(*   packages/core/src/runner-adapter.ts RunnerAdapter (legacy workflows)  *)
(*   packages/core/src/adapters/mastra-adapter.ts  MastraAdapter.execute   *)
(*   packages/core/src/workflow-facade.ts WorkflowFacade                   *)
(*   packages/steps/src/shell.step.ts    ShellStep and its allowlist       *)
(*   packages/utils/src/file-utils.ts    FileUtils path validation         *)
(*                                                                         *)
(* The specifications share the state:                                     *)
(*   SpecStep      one BaseStep.execute call, every step configuration     *)
(*   Spec          one Workflow, addStep and concurrent execute calls      *)
(*   SpecRunner    Runner and RunnerAdapter registries and runWorkflow     *)
(*   SpecRegistry  registration of objects of every shape, and overwrites  *)
(*   SpecBatch     runWorkflowsParallel and runWorkflowsSequential         *)
(*   SpecParallelLive  the fair behaviours of runWorkflowsParallel         *)
(*   SpecFacade    WorkflowFacade.createWorkflow / execute, callers' writes*)
(*   SpecMastra    facade.execute over every step list and validator       *)
(*   SpecExecutes  repeated execute calls on one unchanged Workflow        *)
(*   SpecAddStep   addStep while an execute call is suspended              *)
(*   SpecRegistered  addStep on a Workflow registered with RunnerAdapter   *)
(*   SpecParallelUnknown  runWorkflowsParallel with an unknown name, fair  *)
(*   SpecChain     runWorkflowsSequential over provider instances          *)
(*   SpecShell     ShellStep.execute and the command allowlist             *)
(*   SpecFiles     one FileUtils operation on any path and base directory  *)
(***************************************************************************)
EXTENDS Integers, Sequences, FiniteSets, TLC

VARIABLES
    bs,          \* the BaseStep.execute activation studied by SpecStep
    wfs,         \* heap of Workflow objects: steps, continueOnError, name
    calls,       \* activations of Workflow.execute / runWorkflow
    runnerReg,   \* Runner.workflows        (a Map, in insertion order)
    adapterReg,  \* RunnerAdapter.workflows (a Map, in insertion order)
    batch,       \* the runWorkflowsParallel / runWorkflowsSequential activation
    facade,      \* a WorkflowFacade over a MastraAdapter, and its callers' objects
    shell,       \* a ShellStep, its allowlist and the processes it started
    files        \* FileUtils calls and the paths they touched

vars == <<bs, wfs, calls, runnerReg, adapterReg, batch, facade, shell, files>>

(***************************************************************************)
(* Bounds of the model.                                                    *)
(***************************************************************************)
MaxSteps == 3
MaxCalls == 1

(***************************************************************************)
(* JavaScript values that flow between steps.  Each is named by its        *)
(* source text; "{}" is the empty object literal.                          *)
(***************************************************************************)
Undefined == "undefined"
Numbers == {"0", "1", "2"}
Strings == {"", "a"}
Values == {Undefined, "null", "false", "{}"} \cup Numbers \cup Strings

\* JavaScript truthiness, as used by `if (x && data)`.
IsTruthy(v) == v \notin {Undefined, "null", "false", "0", ""}

(***************************************************************************)
(* Errors and thrown values.  A thrown value is either an Error instance   *)
(* (isError) or any other value; text is the message of an Error, or       *)
(* String(v) of a non-Error value v, as a sequence of text parts.          *)
(***************************************************************************)
MkError(name, text) == [isError |-> TRUE, name |-> name, text |-> text]
MkThrownValue(text) == [isError |-> FALSE, name |-> "value", text |-> text]
NoError == [isError |-> FALSE, name |-> "undefined", text |-> <<>>]

\* error instanceof Error ? error : new Error(String(error))
ToError(thrown) ==
    IF thrown.isError THEN thrown ELSE MkError("Error", thrown.text)

\* Completion of a call: it returns a value or throws (an async function:
\* its promise resolves or rejects).
Return(v) == [kind |-> "return", value |-> v, thrown |-> NoError]
Throw(t) == [kind |-> "throw", value |-> Undefined, thrown |-> t]
Pending == [kind |-> "pending", value |-> Undefined, thrown |-> NoError]

(***************************************************************************)
(* Zod schemas used as validators.                                         *)
(***************************************************************************)
Schemas == {"none", "number", "string"}

SchemaAccepts(schema, v) ==
    CASE schema = "number" -> v \in Numbers
      [] schema = "string" -> v \in Strings
      [] schema = "ShellInputSchema" -> v.command # ""
      [] OTHER -> TRUE

\* schema.parse(v): returns, or throws a ZodError naming the expected type.
Parse(schema, v) ==
    IF SchemaAccepts(schema, v)
    THEN Return(v)
    ELSE Throw(MkError("ZodError", <<"Expected ", schema>>))

(***************************************************************************)
(* Step results and the behaviours of the wrapped run function.            *)
(***************************************************************************)
StepResult(success, data, error) ==
    [success |-> success, data |-> data, error |-> error]

RunKinds == {"echo", "inc", "void", "fail", "failData", "throwErr", "throwVal"}

Inc(n) == CASE n = "0" -> "1" [] n = "1" -> "2" [] OTHER -> "0"

\* The settlement of step.run(input, context), a deterministic function of
\* the input for each kind of step.
Run(step, input) ==
    CASE step.run = "echo" -> Return(StepResult(TRUE, input, NoError))
      [] step.run = "inc" ->
            IF input \in Numbers
            THEN Return(StepResult(TRUE, Inc(input), NoError))
            ELSE Throw(MkError("TypeError", <<"Cannot read properties">>))
      [] step.run = "void" -> Return(StepResult(TRUE, Undefined, NoError))
      [] step.run = "fail" ->
            Return(StepResult(FALSE, Undefined, MkError("Error", <<"Failed">>)))
      [] step.run = "failData" ->
            Return(StepResult(FALSE, input, MkError("Error", <<"Failed">>)))
      [] step.run = "throwErr" -> Throw(MkError("Error", <<"Step failed">>))
      [] OTHER -> Throw(MkThrownValue(<<"boom">>))

StepConfigs ==
    [inputSchema : Schemas, outputSchema : Schemas, run : RunKinds]

\* A run function may also return a promise that never settles ("hang").
Settles(step) == step.run # "hang"

(***************************************************************************)
(* BaseStep.execute                                                        *)
(***************************************************************************)
\* Variant: the input is never validated.
ValidateInput_skipped(step, input) == Return(Undefined)

\* private validateInput(input)
ValidateInput(step, input) ==
    IF step.inputSchema # "none"
    THEN Parse(step.inputSchema, input)
    ELSE Return(Undefined)

\* private validateOutput(data)
ValidateOutput(step, data) ==
    IF step.outputSchema # "none" /\ IsTruthy(data)
    THEN Parse(step.outputSchema, data)
    ELSE Return(Undefined)

\* private handleError(context, error, startTime)
HandleError(thrown) == StepResult(FALSE, Undefined, ToError(thrown))

\* Variant: the catch block rethrows.
Catch_rethrows(thrown) == Throw(thrown)

\* catch (error) { return this.handleError(context, error, startTime); }
Catch(thrown) == Return(HandleError(thrown))

\* execute, up to `await this.run(input, context)`: either the input
\* validator threw and the catch block produced the result, or run is
\* called with the input.
ExecuteBegin(step, input) ==
    LET vi == ValidateInput(step, input)
    IN  IF vi.kind = "throw"
        THEN [runCalled |-> FALSE, runInput |-> Undefined,
              completion |-> Catch(vi.thrown)]
        ELSE [runCalled |-> TRUE, runInput |-> input, completion |-> Pending]

\* execute, from the settlement of run to its return.
ExecuteSettle(step, settled) ==
    IF settled.kind = "throw"
    THEN Catch(settled.thrown)
    ELSE LET vo == ValidateOutput(step, settled.value.data)
         IN  IF vo.kind = "throw"
             THEN Catch(vo.thrown)
             ELSE Return(settled.value)

(***************************************************************************)
(* Workflow                                                                *)
(***************************************************************************)
WfIds == {"w1", "w2"}
CallIds == 1..MaxCalls

\* new Workflow({ name, logger, continueOnError }): an object with a
\* getName method and no id property.
NewWorkflow(name, continueOnError) ==
    [name |-> name, steps |-> <<>>, continueOnError |-> continueOnError,
     frozen |-> FALSE, id |-> Undefined, hasGetName |-> TRUE,
     stepsWhenRegistered |-> <<>>]

\* WorkflowResult (duration left out: it is wall-clock time)
WorkflowResult(success, results, error) ==
    [success |-> success, results |-> results, error |-> error]

\* Variant: the error of the last failing result.
FirstFailureError_last(results) ==
    IF \E i \in DOMAIN results : ~results[i].success
    THEN LET last == CHOOSE i \in DOMAIN results :
                         /\ ~results[i].success
                         /\ \A j \in DOMAIN results :
                                ~results[j].success => j <= i
         IN  results[last].error
    ELSE NoError

\* results.find((r) => !r.success)?.error
FirstFailureError(results) ==
    IF \E i \in DOMAIN results : ~results[i].success
    THEN LET first == CHOOSE i \in DOMAIN results :
                          /\ ~results[i].success
                          /\ \A j \in DOMAIN results :
                                 ~results[j].success => i <= j
         IN  results[first].error
    ELSE NoError

\* Variant: success taken from the last result alone.
CreateResult_lastOnly(results) ==
    [success |-> (results = <<>> \/ results[Len(results)].success),
     results |-> results,
     error |-> IF \E i \in DOMAIN results : ~results[i].success
               THEN results[CHOOSE i \in DOMAIN results :
                               /\ ~results[i].success
                               /\ \A j \in DOMAIN results :
                                      ~results[j].success => i <= j].error
               ELSE NoError]

\* private createResult(results, startTime)
CreateResult(results) ==
    WorkflowResult(\A i \in DOMAIN results : results[i].success,
                   results,
                   FirstFailureError(results))

\* Variant: execution never stops early.
ShouldStopExecution_never(result, continueOnError) == FALSE

\* Variant: continueOnError is ignored.
ShouldStopExecution_ignoresFlag(result, continueOnError) == ~result.success

\* private shouldStopExecution(result)
ShouldStopExecution(result, continueOnError) ==
    ~result.success /\ ~continueOnError

\* execute(initialInput: unknown = {}, ...): the default parameter value
DefaultInput(arg) == IF arg = Undefined THEN "{}" ELSE arg

\* Variant: currentInput = result.data ?? {}
NextInput_defaulted(result) ==
    IF result.data \in {Undefined, "null"} THEN "{}" ELSE result.data

\* currentInput = result.data
NextInput(result) == result.data

(***************************************************************************)
(* MastraAdapter.execute, as reached from RunnerAdapter.runWorkflow with a *)
(* registered instance.                                                    *)
(***************************************************************************)
\* Variant: the data is left out.
CreateSuccessResult_noData(data) ==
    [success |-> TRUE, data |-> Undefined, error |-> NoError, results |-> <<>>]

\* private createSuccessResult(data, startTime)
CreateSuccessResult(data) ==
    [success |-> TRUE, data |-> data, error |-> NoError, results |-> <<>>]

\* private createErrorResult(error, startTime)
CreateErrorResult(thrown) ==
    [success |-> FALSE, data |-> Undefined, error |-> ToError(thrown),
     results |-> <<>>]

\* Variant: no catch, what the workflow throws leaves execute.
MastraExecute_rethrows(settled) ==
    IF settled.kind = "throw"
    THEN settled
    ELSE Return(CreateSuccessResult(settled.value))

\* execute(workflow, input, context): try { data = await
\* this.executeWorkflow(...); return success } catch { return error }.
\* `settled` is the settlement of workflow.execute(input, context).
MastraExecute(settled) ==
    IF settled.kind = "throw"
    THEN Return(CreateErrorResult(settled.thrown))
    ELSE Return(CreateSuccessResult(settled.value))

\* What the caller of an activation receives once Workflow.execute has
\* settled: Workflow.execute and Runner.runWorkflow hand the settlement
\* on; RunnerAdapter.runWorkflow goes through facade.execute and
\* MastraAdapter.execute.
Deliver(via, settled) ==
    IF via = "adapter" THEN MastraExecute(settled) ELSE settled

(***************************************************************************)
(* Activations                                                             *)
(***************************************************************************)
IdleCall ==
    [via |-> "none", key |-> "", wf |-> "none", pc |-> "idle",
     arg |-> Undefined, initialInput |-> Undefined, idx |-> 0,
     currentInput |-> Undefined, results |-> <<>>, pending |-> Pending,
     execLog |-> <<>>, runLog |-> <<>>, outcome |-> Pending,
     stepsAtStart |-> <<>>]

\* The end of Workflow.execute: createResult over the results collected.
Finish(c, results) ==
    [c EXCEPT !.pc = "done", !.results = results,
              !.outcome = Deliver(c.via, Return(CreateResult(results)))]

\* executeStep(stepDef, input, context): stepDef.step.execute runs up to
\* its await of run.
StartStep(c, steps, i, input) ==
    LET b == ExecuteBegin(steps[i], input)
    IN  [c EXCEPT !.idx = i, !.currentInput = input,
                  !.execLog = Append(@, [idx |-> i, step |-> steps[i],
                                           input |-> input]),
                  !.runLog = IF b.runCalled
                             THEN Append(@, [idx |-> i, input |-> b.runInput])
                             ELSE @,
                  !.pending = b.completion,
                  !.pc = IF b.runCalled THEN "inRun" ELSE "stepDone"]

\* for (const stepDef of this.steps): the array iterator compares its
\* index with the live length of the array.
Iterate(c, steps, i, input) ==
    IF i > Len(steps) THEN Finish(c, c.results) ELSE StartStep(c, steps, i, input)

\* Variant: the results array is kept on the Workflow object, so a call
\* starts from the results of a call that finished before it.
BeginExecute_keepsResults(c, via, key, w, arg) ==
    LET prior == {d \in DOMAIN calls : calls[d].pc = "done" /\ calls[d].wf = w}
        kept == IF prior = {}
                THEN <<>>
                ELSE calls[CHOOSE d \in prior : TRUE].results
    IN  Iterate([c EXCEPT !.via = via, !.key = key, !.wf = w, !.arg = arg,
                          !.initialInput = DefaultInput(arg),
                          !.results = kept],
                wfs[w].steps, 1, DefaultInput(arg))

\* Workflow.execute(arg) entered by activation c on workflow object w.
BeginExecute(c, via, key, w, arg) ==
    Iterate([c EXCEPT !.via = via, !.key = key, !.wf = w, !.arg = arg,
                      !.initialInput = DefaultInput(arg)],
            wfs[w].steps, 1, DefaultInput(arg))

\* Body of the loop after `await this.executeStep(...)` has settled.
AfterStep(c, wf) ==
    IF c.pending.kind = "throw"
    THEN [c EXCEPT !.pc = "done", !.outcome = Deliver(c.via, Throw(c.pending.thrown))]
    ELSE LET result == c.pending.value
             pushed == [c EXCEPT !.results = Append(@, result)]
         IN  IF ShouldStopExecution(result, wf.continueOnError)
             THEN Finish(pushed, pushed.results)
             ELSE Iterate(pushed, wf.steps, c.idx + 1, NextInput(result))

(***************************************************************************)
(* Registries: a JavaScript Map as a sequence of entries in insertion      *)
(* order.                                                                  *)
(***************************************************************************)
MapHas(m, k) == \E i \in DOMAIN m : m[i].key = k
MapGet(m, k) ==
    IF MapHas(m, k) THEN m[CHOOSE i \in DOMAIN m : m[i].key = k].value ELSE "none"

\* Variant: an entry is added even when the key is present.
MapSet_appends(m, k, v) == Append(m, [key |-> k, value |-> v])

MapSet(m, k, v) ==
    IF MapHas(m, k)
    THEN [i \in DOMAIN m |-> IF m[i].key = k THEN [key |-> k, value |-> v] ELSE m[i]]
    ELSE Append(m, [key |-> k, value |-> v])
MapKeys(m) == [i \in DOMAIN m |-> m[i].key]

\* Variant: the message does not name the workflow.
RunnerNotFound_noName(name) == MkError("Error", <<"Workflow not found">>)

\* new Error(`Workflow '${name}' not found`)
RunnerNotFound(name) == MkError("Error", <<"Workflow '", name, "' not found">>)

\* new WorkflowExecutionError(`Workflow '${id}' not found`, id)
AdapterNotFound(id) ==
    MkError("WorkflowExecutionError", <<"Workflow '", id, "' not found">>)

\* private hasWorkflowId(workflow):
\* hasId(workflow) && workflow.id != undefined && workflow.id !== ""
HasWorkflowId(wf) == wf.id \notin {Undefined, ""}

\* Variant: getName() is asked before the id property.
ExtractWorkflowId_nameFirst(wf) ==
    IF wf.hasGetName THEN wf.name
    ELSE IF HasWorkflowId(wf) THEN wf.id
    ELSE "unnamed-workflow"

\* private extractWorkflowId(workflow)
ExtractWorkflowId(wf) ==
    IF HasWorkflowId(wf) THEN wf.id
    ELSE IF wf.hasGetName THEN wf.name
    ELSE "unnamed-workflow"

\* private getWorkflowId(workflow, id): id || extractWorkflowId(workflow);
\* an omitted id is written "" here, which `||` treats alike.
GetWorkflowId(wf, id) == IF id # "" THEN id ELSE ExtractWorkflowId(wf)

(***************************************************************************)
(* Actions                                                                 *)
(***************************************************************************)
\* Workflow.addStep(step): this.steps.push(...).  Object.freeze on the
\* Workflow object does not freeze the steps array, so the push succeeds
\* on a registered workflow as well.
AddStep(w, step) ==
    /\ Len(wfs[w].steps) < MaxSteps
    /\ wfs' = [wfs EXCEPT ![w].steps = Append(@, step)]
    /\ UNCHANGED <<bs, calls, runnerReg, adapterReg, batch, facade, shell, files>>

\* Workflow.execute(arg) called directly
Execute(c, w, arg) ==
    /\ calls[c].pc = "idle"
    /\ calls' = [calls EXCEPT ![c] = BeginExecute(calls[c], "workflow", "", w, arg)]
    /\ UNCHANGED <<bs, wfs, runnerReg, adapterReg, batch, facade, shell, files>>

\* The promise of the run function of the step in flight settles;
\* BaseStep.execute continues to its return.
RunSettles(c) ==
    /\ calls[c].pc = "inRun"
    /\ Settles(wfs[calls[c].wf].steps[calls[c].idx])
    /\ LET step == wfs[calls[c].wf].steps[calls[c].idx]
       IN  calls' = [calls EXCEPT ![c].pending =
                         ExecuteSettle(step, Run(step, calls[c].currentInput)),
                     ![c].pc = "stepDone"]
    /\ UNCHANGED <<bs, wfs, runnerReg, adapterReg, batch, facade, shell, files>>

\* executeSteps continues after its await of executeStep.
StepResolved(c) ==
    /\ calls[c].pc = "stepDone"
    /\ calls' = [calls EXCEPT ![c] = AfterStep(calls[c], wfs[calls[c].wf])]
    /\ UNCHANGED <<bs, wfs, runnerReg, adapterReg, batch, facade, shell, files>>

\* Workflow.getName()
GetName(w) == wfs[w].name

\* Workflow.getSteps(): a copy of the step list, [...this.steps]
GetSteps(w) == wfs[w].steps

\* A caller takes getSteps() and calls execute(arg) in the same turn:
\* stepsAtStart is the copy the caller holds, the steps that were in the
\* workflow when the call started.
ExecuteAfterGetSteps(c, w, arg) ==
    /\ calls[c].pc = "idle"
    /\ calls' = [calls EXCEPT ![c] =
          [BeginExecute(calls[c], "workflow", "", w, arg) EXCEPT
              !.stepsAtStart = GetSteps(w)]]
    /\ UNCHANGED <<bs, wfs, runnerReg, adapterReg, batch, facade, shell, files>>

\* Runner.registerWorkflow(workflow)
RunnerRegisterWorkflow(w) ==
    /\ runnerReg' = MapSet(runnerReg, wfs[w].name, w)
    /\ UNCHANGED <<bs, wfs, calls, adapterReg, batch, facade, shell, files>>

\* RunnerAdapter.registerWorkflow(workflow, id)
AdapterRegisterWorkflow(w, id) ==
    /\ adapterReg' = MapSet(adapterReg, GetWorkflowId(wfs[w], id), w)
    /\ wfs' = [wfs EXCEPT ![w].frozen = TRUE]
    /\ UNCHANGED <<bs, calls, runnerReg, batch, facade, shell, files>>

\* A caller takes getSteps() and calls RunnerAdapter.registerWorkflow in
\* the same turn: stepsWhenRegistered is the copy the caller holds, the
\* definition that was registered.
AdapterRegisterAfterGetSteps(w, id) ==
    /\ adapterReg' = MapSet(adapterReg, GetWorkflowId(wfs[w], id), w)
    /\ wfs' = [wfs EXCEPT ![w].frozen = TRUE,
                          ![w].stepsWhenRegistered = GetSteps(w)]
    /\ UNCHANGED <<bs, calls, runnerReg, batch, facade, shell, files>>

\* Runner.runWorkflow(name, input)
RunnerRunWorkflow(c, name, arg) ==
    /\ calls[c].pc = "idle"
    /\ LET workflow == MapGet(runnerReg, name)
       IN  calls' = [calls EXCEPT ![c] =
              IF workflow = "none"
              THEN [@ EXCEPT !.via = "runner", !.key = name, !.arg = arg,
                             !.pc = "done",
                             !.outcome = Throw(RunnerNotFound(name))]
              ELSE BeginExecute(@, "runner", name, workflow, arg)]
    /\ UNCHANGED <<bs, wfs, runnerReg, adapterReg, batch, facade, shell, files>>

\* RunnerAdapter.runWorkflow(id, input)
AdapterRunWorkflow(c, id, arg) ==
    /\ calls[c].pc = "idle"
    /\ LET workflow == MapGet(adapterReg, id)
       IN  calls' = [calls EXCEPT ![c] =
              IF workflow = "none"
              THEN [@ EXCEPT !.via = "adapter", !.key = id, !.arg = arg,
                             !.pc = "done",
                             !.outcome = Throw(AdapterNotFound(id))]
              ELSE BeginExecute(@, "adapter", id, workflow, arg)]
    /\ UNCHANGED <<bs, wfs, runnerReg, adapterReg, batch, facade, shell, files>>

\* BaseStep.execute(input, context) called directly, up to its await.
BsExecute ==
    /\ bs.pc = "idle"
    /\ LET b == ExecuteBegin(bs.step, bs.input)
       IN  bs' = [bs EXCEPT !.pc = IF b.runCalled THEN "inRun" ELSE "done",
                            !.runLog = IF b.runCalled
                                       THEN Append(@, b.runInput) ELSE @,
                            !.out = b.completion]
    /\ UNCHANGED <<wfs, calls, runnerReg, adapterReg, batch, facade, shell, files>>

\* The run function settles and BaseStep.execute returns.
BsRunSettles ==
    /\ bs.pc = "inRun"
    /\ bs' = [bs EXCEPT !.pc = "done",
                        !.out = ExecuteSettle(bs.step, Run(bs.step, bs.input))]
    /\ UNCHANGED <<wfs, calls, runnerReg, adapterReg, batch, facade, shell, files>>

(***************************************************************************)
(* runWorkflowsParallel and runWorkflowsSequential of Runner and           *)
(* RunnerAdapter.  Entry i of the configs runs in activation calls[i].     *)
(***************************************************************************)
MaxConfigs == 2
Slots == 1..MaxConfigs

IdleBatch ==
    [kind |-> "none", via |-> "none", configs |-> <<>>, pc |-> "idle",
     idx |-> 0, currentInput |-> Undefined, results |-> <<>>,
     outcome |-> Pending]

\* a ?? b
Coalesce(a, b) == IF a \in {Undefined, "null"} THEN b ELSE a

\* runWorkflow(key, arg) of the Runner or the RunnerAdapter, entered by
\* activation c: up to its first await, or to its throw.
RunWorkflowBegin(c, via, key, arg) ==
    LET workflow == MapGet(IF via = "runner" THEN runnerReg ELSE adapterReg, key)
    IN  IF workflow = "none"
        THEN [c EXCEPT !.via = via, !.key = key, !.arg = arg, !.pc = "done",
                       !.outcome = Throw(IF via = "runner"
                                         THEN RunnerNotFound(key)
                                         ELSE AdapterNotFound(key))]
        ELSE BeginExecute(c, via, key, workflow, arg)

\* Variant: entry i is started only when it is the first.
ParallelStart_firstOnly(via, configs, i) ==
    IF i = 1
    THEN RunWorkflowBegin(calls[i], via, configs[i].key, configs[i].input)
    ELSE calls[i]

\* Variant: runWorkflow throws in the map callback for a name that is not
\* registered, so the entries after it are not started.
ParallelStart_stopsAtUnknown(via, configs, i) ==
    IF \E j \in 1..(i - 1) :
          ~MapHas(IF via = "runner" THEN runnerReg ELSE adapterReg,
                  configs[j].key)
    THEN calls[i]
    ELSE RunWorkflowBegin(calls[i], via, configs[i].key, configs[i].input)

\* workflows.map(({ input, name }) => this.runWorkflow(name, input)): the
\* call made for entry i.
ParallelStart(via, configs, i) ==
    RunWorkflowBegin(calls[i], via, configs[i].key, configs[i].input)

\* Variant: the results of failed workflows are left out.
PromiseAll_dropsFailed(outcomes) ==
    IF \E i \in DOMAIN outcomes : outcomes[i].kind = "throw"
    THEN Throw(outcomes[CHOOSE i \in DOMAIN outcomes :
                   /\ outcomes[i].kind = "throw"
                   /\ \A j \in DOMAIN outcomes :
                          outcomes[j].kind = "throw" => i <= j].thrown)
    ELSE IF \E i \in DOMAIN outcomes : outcomes[i].kind = "pending"
         THEN Pending
         ELSE Return(SelectSeq([i \in DOMAIN outcomes |-> outcomes[i].value],
                               LAMBDA r : r.success))

\* Variant: the results come in reverse order.
PromiseAll_reversed(outcomes) ==
    IF \E i \in DOMAIN outcomes : outcomes[i].kind = "throw"
    THEN Throw(outcomes[CHOOSE i \in DOMAIN outcomes :
                   /\ outcomes[i].kind = "throw"
                   /\ \A j \in DOMAIN outcomes :
                          outcomes[j].kind = "throw" => i <= j].thrown)
    ELSE IF \E i \in DOMAIN outcomes : outcomes[i].kind = "pending"
         THEN Pending
         ELSE Return([i \in DOMAIN outcomes |->
                         outcomes[Len(outcomes) + 1 - i].value])

\* Promise.all(promises): rejects with the first rejection (the promises
\* that reject here do so in the synchronous map, in index order), and
\* otherwise resolves, once all have, with the values in index order.
PromiseAll(outcomes) ==
    IF \E i \in DOMAIN outcomes : outcomes[i].kind = "throw"
    THEN Throw(outcomes[CHOOSE i \in DOMAIN outcomes :
                   /\ outcomes[i].kind = "throw"
                   /\ \A j \in DOMAIN outcomes :
                          outcomes[j].kind = "throw" => i <= j].thrown)
    ELSE IF \E i \in DOMAIN outcomes : outcomes[i].kind = "pending"
         THEN Pending
         ELSE Return([i \in DOMAIN outcomes |-> outcomes[i].value])

\* private hasValidResults(result)
HasValidResults(result) == result.success /\ Len(result.results) > 0

\* private extractNextInput(result, fallback) of Runner
ExtractNextInput(result, fallback) ==
    IF ~HasValidResults(result)
    THEN fallback
    ELSE result.results[Len(result.results)].data

\* The WorkflowResult object a legacy Workflow resolved to, as the input
\* value of a later workflow: an object, neither a number nor a string.
AsValue(workflowResult) ==
    IF workflowResult.success
    THEN "[WorkflowResult success]"
    ELSE "[WorkflowResult failure]"

\* private updateInputFromResult(result, currentInput) of RunnerAdapter:
\* result.success && result.data ? result.data : currentInput.  The data
\* of a success result is what Workflow.execute resolved to, an object.
UpdateInputFromResult(result, currentInput) ==
    IF result.success THEN AsValue(result.data) ELSE currentInput

NextWorkflowInput(via, result, currentInput) ==
    IF via = "runner"
    THEN ExtractNextInput(result, currentInput)
    ELSE UpdateInputFromResult(result, currentInput)

\* Variant: the loop ends at the first entry whose result has
\* success=false.
SequentialContinues_untilFailure(b, result) ==
    b.idx < Len(b.configs) /\ result.success

\* for (const config of workflows): is there an entry after entry b.idx
SequentialContinues(b, result) == b.idx < Len(b.configs)

\* Variant: the loop is left with the results collected so far.
SequentialRejects_returnsCollected(b, thrown) ==
    [b EXCEPT !.pc = "done", !.outcome = Return(b.results)]

\* `await this.runWorkflow(...)` throws inside the loop of
\* runWorkflowsSequential: nothing catches it, the call rejects.
SequentialRejects(b, thrown) ==
    [b EXCEPT !.pc = "done", !.outcome = Throw(thrown)]

\* runWorkflowsParallel(configs)
RunWorkflowsParallel(via, configs) ==
    /\ batch.kind = "none"
    /\ calls' = [i \in DOMAIN calls |->
                    IF i <= Len(configs)
                    THEN ParallelStart(via, configs, i)
                    ELSE calls[i]]
    /\ batch' = [batch EXCEPT !.kind = "parallel", !.via = via,
                              !.configs = configs, !.pc = "running"]
    /\ UNCHANGED <<bs, wfs, runnerReg, adapterReg, facade, shell, files>>

\* The promise of Promise.all settles and runWorkflowsParallel with it.
ParallelSettles ==
    /\ batch.kind = "parallel"
    /\ batch.pc = "running"
    /\ LET p == PromiseAll([i \in DOMAIN batch.configs |-> calls[i].outcome])
       IN  /\ p.kind # "pending"
           /\ batch' = [batch EXCEPT !.pc = "done", !.outcome = p,
                                     !.results = IF p.kind = "return"
                                                 THEN p.value ELSE <<>>]
    /\ UNCHANGED <<bs, wfs, calls, runnerReg, adapterReg, facade, shell, files>>

\* runWorkflowsSequential(configs), up to its first await
RunWorkflowsSequential(via, configs) ==
    /\ batch.kind = "none"
    /\ IF configs = <<>>
       THEN /\ batch' = [batch EXCEPT !.kind = "sequential", !.via = via,
                                      !.pc = "done", !.outcome = Return(<<>>)]
            /\ UNCHANGED calls
       ELSE LET input == Coalesce(configs[1].input, Undefined)
            IN  /\ calls' = [calls EXCEPT ![1] =
                       RunWorkflowBegin(calls[1], via, configs[1].key, input)]
                /\ batch' = [batch EXCEPT !.kind = "sequential", !.via = via,
                                          !.configs = configs, !.pc = "running",
                                          !.idx = 1]
    /\ UNCHANGED <<bs, wfs, runnerReg, adapterReg, facade, shell, files>>

\* runWorkflowsSequential resumes after `await this.runWorkflow(...)`:
\* the rest of the loop body, and the next iteration up to its await.
SequentialResumes ==
    /\ batch.kind = "sequential"
    /\ batch.pc = "running"
    /\ calls[batch.idx].pc = "done"
    /\ LET settled == calls[batch.idx].outcome
       IN  IF settled.kind = "throw"
           THEN /\ batch' = SequentialRejects(batch, settled.thrown)
                /\ UNCHANGED calls
           ELSE LET results == Append(batch.results, settled.value)
                    current == NextWorkflowInput(batch.via, settled.value,
                                                 batch.currentInput)
                    next == batch.idx + 1
                IN  IF SequentialContinues(batch, settled.value)
                    THEN LET input == Coalesce(batch.configs[next].input, current)
                         IN  /\ calls' = [calls EXCEPT ![next] =
                                    RunWorkflowBegin(calls[next], batch.via,
                                        batch.configs[next].key, input)]
                             /\ batch' = [batch EXCEPT
                                    !.results = results,
                                    !.currentInput = current,
                                    !.idx = next]
                    ELSE /\ batch' = [batch EXCEPT
                                    !.results = results,
                                    !.currentInput = current,
                                    !.pc = "done",
                                    !.outcome = Return(results)]
                         /\ UNCHANGED calls
    /\ UNCHANGED <<bs, wfs, runnerReg, adapterReg, facade, shell, files>>

(***************************************************************************)
(* RunnerAdapter.runWorkflowsSequential over provider workflow instances:  *)
(* objects with an execute function of their own, such as the instances    *)
(* createWorkflow returns, whose execute resolves to the output of the     *)
(* last step.  The data of a success result is then any value.             *)
(***************************************************************************)
MaxChain == 3

\* The registered instances, named by what their execute function does.
ProviderInstances == {"zero", "false", "empty", "null", "two", "echo", "throws"}

\* workflow.execute(input, context) of a registered instance
InstanceExecute(inst, input) ==
    CASE inst = "zero" -> Return("0")
      [] inst = "false" -> Return("false")
      [] inst = "empty" -> Return("")
      [] inst = "null" -> Return("null")
      [] inst = "two" -> Return("2")
      [] inst = "echo" -> Return(input)
      [] OTHER -> Throw(MkError("Error", <<"boom">>))

\* RunnerAdapter.runWorkflow(id, input) on a provider instance, to its
\* settlement: the not-found throw, or facade.execute and
\* MastraAdapter.execute around workflow.execute.
RunProviderWorkflow(id, input) ==
    IF ~MapHas(adapterReg, id)
    THEN Throw(AdapterNotFound(id))
    ELSE MastraExecute(InstanceExecute(MapGet(adapterReg, id), input))

\* private updateInputFromResult(result, currentInput) of RunnerAdapter,
\* for data of any kind:
\* result.success && result.data ? result.data : currentInput
UpdateInputFromData(result, currentInput) ==
    IF result.success /\ IsTruthy(result.data)
    THEN result.data
    ELSE currentInput

\* The runWorkflowsSequential activation, with the input passed to
\* runWorkflow for each entry started.
IdleChain ==
    [kind |-> "none", via |-> "none", configs |-> <<>>, pc |-> "idle",
     idx |-> 0, currentInput |-> Undefined, results |-> <<>>,
     outcome |-> Pending, passed |-> <<>>]

\* runWorkflowsSequential(configs), up to its first await:
\* executeWorkflowInSequence(config, currentInput) calls
\* runWorkflow(config.id, config.input ?? currentInput).
ChainRunWorkflowsSequential(configs) ==
    /\ batch.kind = "none"
    /\ batch' = IF configs = <<>>
                THEN [batch EXCEPT !.kind = "sequential", !.via = "adapter",
                                   !.pc = "done", !.outcome = Return(<<>>)]
                ELSE [batch EXCEPT
                         !.kind = "sequential", !.via = "adapter",
                         !.configs = configs, !.pc = "running", !.idx = 1,
                         !.passed = <<Coalesce(configs[1].input, Undefined)>>]
    /\ UNCHANGED <<bs, wfs, calls, runnerReg, adapterReg, facade, shell, files>>

\* The runWorkflow call of the current entry settles and the loop goes
\* on: push the result, update currentInput, start the next entry.
ChainEntrySettles ==
    /\ batch.kind = "sequential"
    /\ batch.pc = "running"
    /\ LET settled == RunProviderWorkflow(batch.configs[batch.idx].key,
                                          batch.passed[batch.idx])
       IN  IF settled.kind = "throw"
           THEN batch' = SequentialRejects(batch, settled.thrown)
           ELSE LET results == Append(batch.results, settled.value)
                    current == UpdateInputFromData(settled.value,
                                                   batch.currentInput)
                    next == batch.idx + 1
                IN  IF SequentialContinues(batch, settled.value)
                    THEN batch' = [batch EXCEPT
                             !.results = results,
                             !.currentInput = current,
                             !.idx = next,
                             !.passed = Append(@,
                                 Coalesce(batch.configs[next].input, current))]
                    ELSE batch' = [batch EXCEPT
                             !.results = results,
                             !.currentInput = current,
                             !.pc = "done",
                             !.outcome = Return(results)]
    /\ UNCHANGED <<bs, wfs, calls, runnerReg, adapterReg, facade, shell, files>>

(***************************************************************************)
(* WorkflowFacade over the default provider, MastraAdapter.  The callers'  *)
(* objects are part of the state: the step instances, the config.steps     *)
(* array handed to createWorkflow, the instance createWorkflow returns     *)
(* ("i1") and an instance built by hand without an execute function        *)
(* ("i2").  An instance carries the inputSchema and outputSchema of its     *)
(* config, "none" when the config gives none.                              *)
(***************************************************************************)
InstIds == {"i1", "i2"}
StepKeys == {"s1", "s2", "s3"}

\* createStep({ execute, inputSchema, outputSchema }): the step instances
MastraStep(inputSchema, outputSchema, fn) ==
    [inputSchema |-> inputSchema, outputSchema |-> outputSchema, fn |-> fn]
IncStep == MastraStep("none", "none", "inc")
NumberEchoStep == MastraStep("number", "none", "echo")
ThrowStep == MastraStep("none", "none", "throwErr")
ThrowValueStep == MastraStep("none", "none", "throwVal")
StringOutputStep == MastraStep("none", "string", "inc")
StepInstances ==
    [k \in StepKeys |->
        CASE k = "s1" -> IncStep [] k = "s2" -> NumberEchoStep [] OTHER -> ThrowStep]

\* The function a step config wraps: it returns a value or throws.
UserFn(fn, input) ==
    CASE fn = "inc" ->
            IF input \in Numbers
            THEN Return(Inc(input))
            ELSE Throw(MkError("TypeError", <<"Cannot read properties">>))
      [] fn = "echo" -> Return(input)
      [] fn = "throwVal" -> Throw(MkThrownValue(<<"boom">>))
      [] OTHER -> Throw(MkError("Error", <<"Step failed">>))

\* Variant: no schema is ever applied.
MastraValidate_skipped(schema, data, prefix) == Return(Undefined)

\* private validateInput / validateOutput / validateWithSchema
MastraValidate(schema, data, prefix) ==
    IF schema = "none" \/ SchemaAccepts(schema, data)
    THEN Return(Undefined)
    ELSE Throw(MkError("Error", <<prefix, " validation failed: ",
                                  "Expected ", schema>>))

\* execute of a step instance: validateInput; result = await execute(input);
\* validateOutput; return result.
StepInstanceExecute(step, input) ==
    LET vi == MastraValidate(step.inputSchema, input, "Input")
        r == UserFn(step.fn, input)
    IN  IF vi.kind = "throw" THEN vi
        ELSE IF r.kind = "throw" THEN r
        ELSE LET vo == MastraValidate(step.outputSchema, r.value, "Output")
             IN  IF vo.kind = "throw" THEN vo ELSE r

\* The inputs with which that execute calls the function of its config:
\* none when validateInput throws.
StepInstanceCalls(step, input) ==
    IF MastraValidate(step.inputSchema, input, "Input").kind = "throw"
    THEN <<>>
    ELSE <<input>>

NoInstance ==
    [exists |-> FALSE, id |-> "", steps |-> <<>>, hasExecute |-> FALSE,
     frozen |-> FALSE, stepsFrozen |-> FALSE, definition |-> <<>>,
     inputSchema |-> "none", outputSchema |-> "none"]

IdleAct ==
    [pc |-> "idle", byId |-> FALSE, key |-> "", inst |-> "none",
     input |-> Undefined, idx |-> 0, currentInput |-> Undefined,
     log |-> <<>>, fnLog |-> <<>>, returns |-> <<>>,
     providerResult |-> Pending, outcome |-> Pending]

IdleFacade ==
    [reg |-> <<>>, insts |-> [i \in InstIds |-> NoInstance],
     steps |-> StepInstances, configSteps |-> <<>>, typeErrors |-> {},
     providerLog |-> <<>>, act |-> IdleAct]

\* Variant: the id of the error is always "unknown".
GetWorkflowErrorId_unknown(byId, target) == "unknown"

\* private getWorkflowErrorId(workflowIdOrInstance)
GetWorkflowErrorId(byId, target) == IF byId THEN target ELSE "unknown"

\* new WorkflowExecutionError(`Workflow not found: ${errorId}`, errorId)
FacadeNotFound(errorId) ==
    [isError |-> TRUE, name |-> "WorkflowExecutionError",
     text |-> <<"Workflow not found: ", errorId>>, workflowId |-> errorId]

\* private resolveWorkflow(workflowIdOrInstance)
ResolveWorkflow(byId, target) ==
    IF byId THEN MapGet(facade.reg, target) ELSE target

\* Variant: the steps list is not frozen.
FrozenWrite_allowed(isFrozen, old, new) == new

\* A write to a property or an element of an object: in a module (strict
\* mode) it throws a TypeError and changes nothing when the object is
\* frozen.
FrozenWrite(isFrozen, old, new) == IF isFrozen THEN old ELSE new

\* The array the execution iterates: the execute closure of an instance
\* made by createWorkflow holds the `steps` of its config; an instance
\* without execute is run over its own steps (executeWorkflow).
StepsArray(f, inst) ==
    IF f.insts[inst].hasExecute THEN f.configSteps ELSE f.insts[inst].steps

\* The head of the execute closure of createWorkflow:
\* this.validateInput(inputSchema, ..., input, "Workflow input").  An
\* instance without execute is run by executeWorkflow with no validation.
WorkflowInputCheck(f, inst, input) ==
    IF f.insts[inst].hasExecute
    THEN MastraValidate(f.insts[inst].inputSchema, input, "Workflow input")
    ELSE Return(Undefined)

\* The tail of that closure: this.validateOutput(outputSchema, ..., output,
\* "Workflow output"); return output.
WorkflowOutputCheck(f, inst, output) ==
    LET vo == IF f.insts[inst].hasExecute
              THEN MastraValidate(f.insts[inst].outputSchema, output,
                                  "Workflow output")
              ELSE Return(Undefined)
    IN  IF vo.kind = "throw" THEN vo ELSE Return(output)

\* private executeStepsSequentially: for (const step of steps), from index
\* i with the current input, up to `await step.execute(currentInput)` or
\* to the end of MastraAdapter.execute.
StepsIterate(f, a, i, input) ==
    LET arr == StepsArray(f, a.inst)
        settled == WorkflowOutputCheck(f, a.inst, input)
    IN  IF i > Len(arr)
        THEN [a EXCEPT !.pc = "done", !.currentInput = input,
                       !.providerResult = MastraExecute(settled),
                       !.outcome = MastraExecute(settled)]
        ELSE [a EXCEPT !.pc = "inStep", !.idx = i, !.currentInput = input,
                       !.log = Append(@, [step |-> arr[i], fn |-> f.steps[arr[i]],
                                          input |-> input])]

\* WorkflowFacade.createWorkflow(config) with config.steps the callers'
\* array: MastraAdapter.createWorkflow, then Object.freeze and set.
FacadeCreateWorkflow(id, inputSchema, outputSchema) ==
    /\ ~facade.insts["i1"].exists
    /\ facade' = [facade EXCEPT
          !.insts["i1"] =
              [exists |-> TRUE, id |-> id, steps |-> facade.configSteps,
               hasExecute |-> TRUE, frozen |-> TRUE, stepsFrozen |-> TRUE,
               inputSchema |-> inputSchema, outputSchema |-> outputSchema,
               definition |-> [k \in DOMAIN facade.configSteps |->
                                  [step |-> facade.configSteps[k],
                                   fn |-> facade.steps[facade.configSteps[k]]]]],
          !.reg = MapSet(@, id, "i1")]
    /\ UNCHANGED <<bs, wfs, calls, runnerReg, adapterReg, batch, shell, files>>

\* A caller assigns to the execute property of the workflow returned by
\* createWorkflow.
CallerWritesWorkflow ==
    /\ facade.insts["i1"].exists
    /\ "workflow" \notin facade.typeErrors
    /\ facade' = [facade EXCEPT
          !.insts["i1"].hasExecute =
              FrozenWrite(facade.insts["i1"].frozen, @, FALSE),
          !.typeErrors = IF facade.insts["i1"].frozen
                         THEN @ \cup {"workflow"} ELSE @]
    /\ UNCHANGED <<bs, wfs, calls, runnerReg, adapterReg, batch, shell, files>>

\* A caller pushes a step onto the steps list of the returned workflow.
CallerPushesStepsList(s) ==
    /\ facade.insts["i1"].exists
    /\ "steps" \notin facade.typeErrors
    /\ facade' = [facade EXCEPT
          !.insts["i1"].steps =
              FrozenWrite(facade.insts["i1"].stepsFrozen, @, Append(@, s)),
          !.typeErrors = IF facade.insts["i1"].stepsFrozen
                         THEN @ \cup {"steps"} ELSE @]
    /\ UNCHANGED <<bs, wfs, calls, runnerReg, adapterReg, batch, shell, files>>

\* A caller replaces the function of a step instance (step.execute = f):
\* step instances are plain objects, nothing freezes them.
CallerWritesStep(s, fn) ==
    /\ facade.steps[s].fn # fn
    /\ facade' = [facade EXCEPT !.steps[s].fn = fn]
    /\ UNCHANGED <<bs, wfs, calls, runnerReg, adapterReg, batch, shell, files>>

\* A caller pushes a step onto the array it passed as config.steps.
CallerPushesConfigSteps(s) ==
    /\ Len(facade.configSteps) < MaxSteps
    /\ facade' = [facade EXCEPT !.configSteps = Append(@, s)]
    /\ UNCHANGED <<bs, wfs, calls, runnerReg, adapterReg, batch, shell, files>>

\* WorkflowFacade.execute(workflowIdOrInstance, input): resolveWorkflow,
\* the not-found throw, or provider.execute up to its first await.
FacadeExecute(byId, target, input) ==
    /\ facade.act.pc = "idle"
    /\ IF byId THEN TRUE ELSE facade.insts[target].exists
    /\ LET workflow == ResolveWorkflow(byId, target)
           a == [facade.act EXCEPT !.byId = byId, !.key = target,
                                   !.input = input]
       IN  IF workflow = "none"
           THEN facade' = [facade EXCEPT !.act =
                    [a EXCEPT !.pc = "done",
                              !.outcome = Throw(FacadeNotFound(
                                  GetWorkflowErrorId(byId, target)))]]
           ELSE LET vi == WorkflowInputCheck(facade, workflow, input)
                    b == [a EXCEPT !.inst = workflow]
                IN  facade' = [facade EXCEPT
                        !.providerLog = Append(@, [inst |-> workflow,
                                                   input |-> input]),
                        !.act = IF vi.kind = "throw"
                                THEN [b EXCEPT
                                        !.pc = "done",
                                        !.providerResult = MastraExecute(vi),
                                        !.outcome = MastraExecute(vi)]
                                ELSE StepsIterate(facade, b, 1, input)]
    /\ UNCHANGED <<bs, wfs, calls, runnerReg, adapterReg, batch, shell, files>>

\* The step instance in flight settles; the loop of
\* executeStepsSequentially goes on to the next await, or
\* MastraAdapter.execute returns its result.
FacadeStepSettles ==
    /\ facade.act.pc = "inStep"
    /\ LET a == facade.act
           called == a.log[Len(a.log)]
           settled == StepInstanceExecute(called.fn, called.input)
           fnLog == a.fnLog \o StepInstanceCalls(called.fn, called.input)
       IN  facade' = [facade EXCEPT !.act =
               IF settled.kind = "throw"
               THEN [a EXCEPT !.pc = "done", !.fnLog = fnLog,
                              !.providerResult = MastraExecute(settled),
                              !.outcome = MastraExecute(settled)]
               ELSE StepsIterate(facade,
                        [a EXCEPT !.returns = Append(@, settled.value),
                                  !.fnLog = fnLog],
                        a.idx + 1, settled.value)]
    /\ UNCHANGED <<bs, wfs, calls, runnerReg, adapterReg, batch, shell, files>>


(***************************************************************************)
(* ShellStep: the allowlist, and the processes started through execa.      *)
(***************************************************************************)
\* new ShellCommandAllowlist(): the default list
DefaultCommands ==
    {"ls", "cat", "echo", "pwd", "mkdir", "rm", "cp", "mv", "node", "npm",
     "pnpm", "yarn", "git", "docker", "kubectl"}

\* The commands callers ask for or add: two of the default list, two that
\* are not in it, and the empty string, which ShellInputSchema rejects.
ShellCommands == {"ls", "rm", "curl", "terraform", ""}
AddedCommands == {"curl", "terraform"}

\* ShellStep.withAllowedCommands(list) or new ShellStep(): the lists given
\* at construction.
ConstructedLists == {DefaultCommands, {"ls"}, {}}

\* The ShellStep as a BaseStep: getInputSchema() is ShellInputSchema,
\* there is no output schema.
ShellStepConfig ==
    [inputSchema |-> "ShellInputSchema", outputSchema |-> "none",
     run |-> "shell"]

\* constructed and added are the callers' record of the list given at
\* construction and of the addAllowedCommand calls made; processes is the
\* record of the execa calls, each with whether its command was in the
\* allowlist when ShellStep was called.
IdleShell ==
    [allowlist |-> {}, constructed |-> {}, added |-> {},
     pc |-> "idle", viaExecute |-> FALSE, input |-> [command |-> ""],
     allowedAtCall |-> FALSE, processes |-> <<>>, out |-> Pending]

\* Variant: every command is allowed.
IsCommandAllowed_always(commands, commandName) == TRUE

\* ShellCommandAllowlist.isCommandAllowed(commandName)
IsCommandAllowed(commands, commandName) == commandName \in commands

\* ShellCommandAllowlist.createDisallowedCommandError(commandName)
CreateDisallowedCommandError(commandName) ==
    StepResult(FALSE, Undefined,
               MkError("Error", <<"Command '", commandName, "' is not allowed">>))

\* What the promise of execa(command, args, { reject: false, ... }) does:
\* it resolves with exit code 0 or another one, or rejects.
ExecaOutcomes == {"exit0", "exit1", "rejects"}

\* executeWithValidation after `await this.executor.executeCommand(input)`:
\* transformExecutionResult and isSuccessfulExecution.
ShellResult(outcome) ==
    CASE outcome = "exit0" ->
            Return(StepResult(TRUE, "[ShellOutput exitCode 0]", NoError))
      [] outcome = "exit1" ->
            Return(StepResult(FALSE, "[ShellOutput exitCode 1]", NoError))
      [] OTHER -> Throw(MkError("Error", <<"Command failed">>))

\* ShellStep.run: try { return await this.executeWithValidation(...) }
\* catch (error) { return this.executor.convertErrorToResult(error) }
ShellRun(settled) ==
    IF settled.kind = "throw"
    THEN Return(StepResult(FALSE, Undefined, ToError(settled.thrown)))
    ELSE settled

\* What the caller receives for the settlement of executeWithValidation:
\* through BaseStep.execute and run, or from the method called directly.
ShellDeliver(viaExecute, settled) ==
    IF viaExecute
    THEN ExecuteSettle(ShellStepConfig, ShellRun(settled))
    ELSE settled

\* executeWithValidation(input, context) up to its await of execa.
ExecuteWithValidation(sh, viaExecute, input) ==
    LET called == [sh EXCEPT !.viaExecute = viaExecute, !.input = input,
                             !.allowedAtCall = input.command \in sh.allowlist]
    IN  IF ~IsCommandAllowed(sh.allowlist, input.command)
        THEN [called EXCEPT
                !.pc = "done",
                !.out = ShellDeliver(viaExecute,
                            Return(CreateDisallowedCommandError(input.command)))]
        ELSE [called EXCEPT
                !.pc = "inProcess",
                !.processes = Append(@, [command |-> input.command,
                                         allowed |-> input.command \in sh.allowlist])]

\* ShellStep.addAllowedCommand(commandName)
ShellAddAllowedCommand(commandName) ==
    /\ shell' = [shell EXCEPT !.allowlist = @ \cup {commandName},
                              !.added = @ \cup {commandName}]
    /\ UNCHANGED <<bs, wfs, calls, runnerReg, adapterReg, batch, facade, files>>

\* ShellStep.execute(input, context): BaseStep.execute validates the input
\* with ShellInputSchema and calls run, which calls executeWithValidation.
ShellStepExecute(input) ==
    /\ shell.pc = "idle"
    /\ LET b == ExecuteBegin(ShellStepConfig, input)
       IN  shell' = IF b.runCalled
                    THEN ExecuteWithValidation(shell, TRUE, input)
                    ELSE [shell EXCEPT
                            !.viaExecute = TRUE, !.input = input,
                            !.allowedAtCall = input.command \in shell.allowlist,
                            !.pc = "done", !.out = b.completion]
    /\ UNCHANGED <<bs, wfs, calls, runnerReg, adapterReg, batch, facade, files>>

\* ShellStep.executeWithValidation(input, context) called directly: it is
\* a public method.
ShellExecuteWithValidation(input) ==
    /\ shell.pc = "idle"
    /\ shell' = ExecuteWithValidation(shell, FALSE, input)
    /\ UNCHANGED <<bs, wfs, calls, runnerReg, adapterReg, batch, facade, files>>

\* The promise of execa settles.
ShellProcessSettles(outcome) ==
    /\ shell.pc = "inProcess"
    /\ shell' = [shell EXCEPT
                    !.pc = "done",
                    !.out = ShellDeliver(shell.viaExecute, ShellResult(outcome))]
    /\ UNCHANGED <<bs, wfs, calls, runnerReg, adapterReg, batch, facade, files>>

(***************************************************************************)
(* FileUtils                                                               *)
(***************************************************************************)
\* A path is given as the list of its segments, each segment a list of
\* characters, and is absolute or relative to the working directory.
MaxDepth == 2
DotDot == <<".", ".">>
SegmentNames == {<<"a">>, <<"a", "b">>, DotDot}
Depths == 0..MaxDepth
Paths ==
    [absolute : BOOLEAN,
     segs : UNION {[1..n -> SegmentNames] : n \in Depths}]
AbsolutePath(segs) == [absolute |-> TRUE, segs |-> segs]

\* process.cwd(): "/a"
Cwd == << <<"a">> >>

\* The directories callers confine the operations to: "/a", "/a/ab" and
\* ".", the working directory.
BaseDirs ==
    {AbsolutePath(<< <<"a">> >>), AbsolutePath(<< <<"a">>, <<"a", "b">> >>),
     [absolute |-> FALSE, segs |-> <<>>]}

\* The normalisation of path.resolve: a ".." segment removes the segment
\* before it, and nothing at the root.
RECURSIVE Normalize(_, _)
Normalize(segs, acc) ==
    IF segs = <<>>
    THEN acc
    ELSE IF Head(segs) = DotDot
         THEN Normalize(Tail(segs),
                        IF acc = <<>> THEN acc ELSE SubSeq(acc, 1, Len(acc) - 1))
         ELSE Normalize(Tail(segs), Append(acc, Head(segs)))

\* path.resolve(p): the segments of the absolute path.
Resolve(p) ==
    Normalize(IF p.absolute THEN p.segs ELSE Cwd \o p.segs, <<>>)

\* The string path.resolve returns, as its characters: "/" alone for the
\* root, else "/" and the name for every segment, no trailing "/".
RECURSIVE JoinSegments(_)
JoinSegments(segs) ==
    IF segs = <<>>
    THEN <<>>
    ELSE <<"/">> \o Head(segs) \o JoinSegments(Tail(segs))
PathString(segs) == IF segs = <<>> THEN <<"/">> ELSE JoinSegments(segs)

\* Variant: the resolved base must be a whole-segment prefix.
StartsWith_segments(s, t) ==
    /\ Len(t) <= Len(s)
    /\ \A i \in DOMAIN t : s[i] = t[i]
    /\ \/ Len(s) = Len(t)
       \/ t = <<"/">>
       \/ s[Len(t) + 1] = "/"

\* String.prototype.startsWith
StartsWith(s, t) ==
    /\ Len(t) <= Len(s)
    /\ \A i \in DOMAIN t : s[i] = t[i]

\* FileUtils.validatePath(filePath, baseDir)
ValidatePath(filePath, baseDir) ==
    LET resolvedPath == PathString(Resolve(filePath))
        resolvedBase == PathString(Resolve(baseDir))
    IN  IF ~StartsWith(resolvedPath, resolvedBase)
        THEN Throw(MkError("Error", <<"Path traversal detected: ", "filePath",
                                      " is outside ", "baseDir">>))
        ELSE Return(Undefined)

\* path.dirname(filePath): the path without its last segment.
DirName(p) ==
    IF p.segs = <<>>
    THEN p
    ELSE [p EXCEPT !.segs = SubSeq(p.segs, 1, Len(p.segs) - 1)]

FileOps == {"readFileSafe", "writeFileSafe", "readFileLines", "ensureDir"}

\* The paths an operation hands to fs-extra once validatePath returned.
FsPaths(op, filePath) ==
    IF op = "writeFileSafe"
    THEN {Resolve(DirName(filePath)), Resolve(filePath)}
    ELSE {Resolve(filePath)}

\* touched is the set of absolute paths handed to fs-extra.
IdleFiles ==
    [pc |-> "idle", op |-> "none",
     filePath |-> AbsolutePath(<<>>), baseDir |-> AbsolutePath(<<>>),
     touched |-> {}, out |-> Pending]

\* readFileSafe, writeFileSafe, readFileLines and ensureDir: validatePath,
\* then the fs-extra calls, which succeed or reject (a missing file).
FileOperation(op, filePath, baseDir, fsSucceeds) ==
    /\ files.pc = "idle"
    /\ LET v == ValidatePath(filePath, baseDir)
           called == [files EXCEPT !.pc = "done", !.op = op,
                                   !.filePath = filePath, !.baseDir = baseDir]
       IN  files' =
             IF v.kind = "throw"
             THEN [called EXCEPT !.out = v]
             ELSE [called EXCEPT
                     !.touched = FsPaths(op, filePath),
                     !.out = IF fsSucceeds
                             THEN Return("[fs result]")
                             ELSE Throw(MkError("Error", <<"ENOENT">>))]
    /\ UNCHANGED <<bs, wfs, calls, runnerReg, adapterReg, batch, facade, shell>>

(***************************************************************************)
(* Specifications                                                          *)
(***************************************************************************)
IdleStep ==
    [step |-> [inputSchema |-> "none", outputSchema |-> "none", run |-> "echo"],
     input |-> Undefined, pc |-> "idle", runLog |-> <<>>, out |-> Pending]

\* Steps a Workflow is built from in Spec and SpecRunner.
AddStepOf == [inputSchema |-> "none", outputSchema |-> "none", run |-> "inc"]
FailingStep == [inputSchema |-> "none", outputSchema |-> "none", run |-> "fail"]
ThrowingStep == [inputSchema |-> "none", outputSchema |-> "none", run |-> "throwVal"]
CheckedStep == [inputSchema |-> "number", outputSchema |-> "none", run |-> "echo"]
FailDataStep == [inputSchema |-> "none", outputSchema |-> "string", run |-> "failData"]
EchoStep == [inputSchema |-> "none", outputSchema |-> "none", run |-> "echo"]
StepCatalog ==
    {AddStepOf, FailingStep, ThrowingStep, CheckedStep, FailDataStep, EchoStep}

InputValues == {Undefined, "1"}

\* SpecStep: a step of any configuration, executed directly on any input
\* and as the only step of a Workflow.
InitStep ==
    /\ bs \in [step : StepConfigs, input : Values, pc : {"idle"},
               runLog : {<<>>}, out : {Pending}]
    /\ \E coe \in BOOLEAN :
          wfs = [w \in WfIds |->
                    [NewWorkflow("A", coe) EXCEPT !.steps = <<bs.step>>]]
    /\ calls = [c \in CallIds |-> IdleCall]
    /\ runnerReg = <<>>
    /\ adapterReg = <<>>
    /\ batch = IdleBatch
    /\ shell = IdleShell
    /\ files = IdleFiles
    /\ facade = IdleFacade

NextStep ==
    \/ BsExecute
    \/ BsRunSettles
    \/ \E c \in CallIds : Execute(c, "w1", bs.input)
    \/ \E c \in CallIds : RunSettles(c)
    \/ \E c \in CallIds : StepResolved(c)

SpecStep == InitStep /\ [][NextStep]_vars

\* Spec: one Workflow object, built with addStep and executed.
Init ==
    /\ bs = IdleStep
    /\ \E coe \in BOOLEAN :
          wfs = [w \in WfIds |-> NewWorkflow("A", coe)]
    /\ calls = [c \in CallIds |-> IdleCall]
    /\ runnerReg = <<>>
    /\ adapterReg = <<>>
    /\ batch = IdleBatch
    /\ shell = IdleShell
    /\ files = IdleFiles
    /\ facade = IdleFacade

Next ==
    \/ \E s \in StepCatalog : AddStep("w1", s)
    \/ \E c \in CallIds, arg \in InputValues : Execute(c, "w1", arg)
    \/ \E c \in CallIds : RunSettles(c)
    \/ \E c \in CallIds : StepResolved(c)

Spec == Init /\ [][Next]_vars

\* SpecRunner: two legacy Workflow objects, registered with a Runner and a
\* RunnerAdapter and run by key.
Keys == {"A", "B", "C"}
ExplicitIds == {"", "C"}
RunnerInputs == {"1"}
RunnerStepLists ==
    {<<>>, <<AddStepOf>>, <<AddStepOf, FailingStep>>, <<ThrowingStep, AddStepOf>>}

InitRunner ==
    /\ bs = IdleStep
    /\ \E s1 \in RunnerStepLists, coe \in BOOLEAN :
          wfs = [w \in WfIds |->
                    IF w = "w1"
                    THEN [NewWorkflow("A", coe) EXCEPT !.steps = s1]
                    ELSE [NewWorkflow("B", FALSE) EXCEPT !.steps = <<AddStepOf>>]]
    /\ calls = [c \in CallIds |-> IdleCall]
    /\ runnerReg = <<>>
    /\ adapterReg = <<>>
    /\ batch = IdleBatch
    /\ shell = IdleShell
    /\ files = IdleFiles
    /\ facade = IdleFacade

NextRunner ==
    \/ \E w \in WfIds : RunnerRegisterWorkflow(w)
    \/ \E w \in WfIds, id \in ExplicitIds : AdapterRegisterWorkflow(w, id)
    \/ \E c \in CallIds, k \in Keys, arg \in RunnerInputs : RunnerRunWorkflow(c, k, arg)
    \/ \E c \in CallIds, k \in Keys, arg \in RunnerInputs : AdapterRunWorkflow(c, k, arg)
    \/ \E c \in CallIds : RunSettles(c)
    \/ \E c \in CallIds : StepResolved(c)

SpecRunner == InitRunner /\ [][NextRunner]_vars

\* SpecBatch: three legacy Workflow objects registered with a Runner and a
\* RunnerAdapter, and one runWorkflowsParallel or runWorkflowsSequential
\* call over a list of configs.
HangingStep == [inputSchema |-> "none", outputSchema |-> "none", run |-> "hang"]
BatchWfIds == {"w1", "w2", "w3"}
BatchKeys == {"A", "B", "H", "X"}
BatchInputs == {Undefined, "1"}
ConfigEntries == [key : BatchKeys, input : BatchInputs]
BatchConfigs == UNION {[1..n -> ConfigEntries] : n \in 0..MaxConfigs}
Vias == {"runner", "adapter"}

InitBatch ==
    /\ bs = IdleStep
    /\ \E coe \in BOOLEAN :
          wfs = [w \in BatchWfIds |->
                    CASE w = "w1" ->
                           [NewWorkflow("A", FALSE) EXCEPT
                               !.steps = <<AddStepOf>>, !.frozen = TRUE]
                      [] w = "w2" ->
                           [NewWorkflow("B", coe) EXCEPT
                               !.steps = <<FailingStep, AddStepOf>>,
                               !.frozen = TRUE]
                      [] OTHER ->
                           [NewWorkflow("H", FALSE) EXCEPT
                               !.steps = <<AddStepOf, HangingStep>>,
                               !.frozen = TRUE]]
    /\ calls = [c \in Slots |-> IdleCall]
    /\ runnerReg = MapSet(MapSet(MapSet(<<>>, "A", "w1"), "B", "w2"), "H", "w3")
    /\ adapterReg = MapSet(MapSet(MapSet(<<>>, "A", "w1"), "B", "w2"), "H", "w3")
    /\ batch = IdleBatch
    /\ shell = IdleShell
    /\ files = IdleFiles
    /\ facade = IdleFacade

NextBatch ==
    \/ \E via \in Vias, configs \in BatchConfigs : RunWorkflowsParallel(via, configs)
    \/ \E via \in Vias, configs \in BatchConfigs : RunWorkflowsSequential(via, configs)
    \/ ParallelSettles
    \/ SequentialResumes
    \/ \E c \in Slots : RunSettles(c)
    \/ \E c \in Slots : StepResolved(c)

SpecBatch == InitBatch /\ [][NextBatch]_vars

\* SpecRegistry: a legacy Workflow and a second object of any shape (with
\* or without an id property, with or without getName) whose execute runs
\* its own steps like a Workflow; both are registered, under every key
\* they can get, and run by key.
Shapes ==
    {[id |-> Undefined, hasGetName |-> TRUE, name |-> "A"],
     [id |-> Undefined, hasGetName |-> TRUE, name |-> ""],
     [id |-> "D", hasGetName |-> TRUE, name |-> "A"],
     [id |-> "", hasGetName |-> TRUE, name |-> "A"],
     [id |-> "D", hasGetName |-> FALSE, name |-> ""],
     [id |-> Undefined, hasGetName |-> FALSE, name |-> ""]}
RegistryKeysRun == {"A", "", "C", "D", "unnamed-workflow"}
\* The keys a Runner can hold here: the names of the objects.
RunnerKeysRun == {"A", ""}

InitRegistry ==
    /\ bs = IdleStep
    /\ \E shape \in Shapes :
          wfs = [w \in WfIds |->
                    IF w = "w1"
                    THEN [NewWorkflow("A", FALSE) EXCEPT !.steps = <<AddStepOf>>]
                    ELSE [NewWorkflow(shape.name, FALSE) EXCEPT
                             !.steps = <<FailingStep>>,
                             !.id = shape.id,
                             !.hasGetName = shape.hasGetName]]
    /\ calls = [c \in CallIds |-> IdleCall]
    /\ runnerReg = <<>>
    /\ adapterReg = <<>>
    /\ batch = IdleBatch
    /\ shell = IdleShell
    /\ files = IdleFiles
    /\ facade = IdleFacade

NextRegistry ==
    \/ \E w \in WfIds : wfs[w].hasGetName /\ RunnerRegisterWorkflow(w)
    \/ \E w \in WfIds, id \in ExplicitIds : AdapterRegisterWorkflow(w, id)
    \/ \E c \in CallIds, k \in RunnerKeysRun, arg \in RunnerInputs :
          RunnerRunWorkflow(c, k, arg)
    \/ \E c \in CallIds, k \in RegistryKeysRun, arg \in RunnerInputs :
          AdapterRunWorkflow(c, k, arg)
    \/ \E c \in CallIds : RunSettles(c)
    \/ \E c \in CallIds : StepResolved(c)

SpecRegistry == InitRegistry /\ [][NextRegistry]_vars

\* SpecFacade: a WorkflowFacade, the workflow made by createWorkflow from
\* the callers' steps array, a hand-built instance without execute, the
\* callers' later writes to those objects, and one facade.execute call.
FacadeIds == {"W", "V"}
FacadeInputs == {"1", "a"}
StepLists == {<<>>, <<"s1">>, <<"s1", "s2">>, <<"s3", "s1">>, <<"s2", "s1">>}

InitFacade ==
    /\ bs = IdleStep
    /\ wfs = [w \in WfIds |-> NewWorkflow("A", FALSE)]
    /\ calls = [c \in CallIds |-> IdleCall]
    /\ runnerReg = <<>>
    /\ adapterReg = <<>>
    /\ batch = IdleBatch
    /\ shell = IdleShell
    /\ files = IdleFiles
    /\ \E cfg \in {<<"s1">>, <<"s1", "s2">>}, own \in StepLists :
          facade = [IdleFacade EXCEPT
                       !.configSteps = cfg,
                       !.insts["i2"] = [NoInstance EXCEPT
                                           !.exists = TRUE, !.id = "M",
                                           !.steps = own]]

NextFacade ==
    \/ FacadeCreateWorkflow("W", "none", "none")
    \/ CallerWritesWorkflow
    \/ CallerPushesStepsList("s3")
    \/ CallerWritesStep("s1", "throwErr")
    \/ CallerPushesConfigSteps("s3")
    \/ \E id \in FacadeIds, input \in FacadeInputs : FacadeExecute(TRUE, id, input)
    \/ \E i \in InstIds, input \in FacadeInputs : FacadeExecute(FALSE, i, input)
    \/ FacadeStepSettles

SpecFacade == InitFacade /\ [][NextFacade]_vars

\* SpecMastra: MastraAdapter with workflows and steps whose configs give
\* validators or none: three step instances of any kind, one workflow made
\* by createWorkflow over a list of them with any pair of schemas, a
\* hand-built instance over the same list, and one execute call.
MastraCatalog ==
    {IncStep, NumberEchoStep, ThrowStep, ThrowValueStep, StringOutputStep}
MastraStepLists == {<<>>, <<"s1", "s2">>, <<"s1", "s2", "s3">>}

InitMastra ==
    /\ bs = IdleStep
    /\ wfs = [w \in WfIds |-> NewWorkflow("A", FALSE)]
    /\ calls = [c \in CallIds |-> IdleCall]
    /\ runnerReg = <<>>
    /\ adapterReg = <<>>
    /\ batch = IdleBatch
    /\ shell = IdleShell
    /\ files = IdleFiles
    /\ \E steps \in [StepKeys -> MastraCatalog], cfg \in MastraStepLists :
          facade = [IdleFacade EXCEPT
                       !.steps = steps,
                       !.configSteps = cfg,
                       !.insts["i2"] = [NoInstance EXCEPT
                                           !.exists = TRUE, !.id = "M",
                                           !.steps = cfg]]

NextMastra ==
    \/ \E inputSchema \in Schemas, outputSchema \in Schemas :
          FacadeCreateWorkflow("W", inputSchema, outputSchema)
    \/ \E i \in InstIds, input \in FacadeInputs : FacadeExecute(FALSE, i, input)
    \/ FacadeStepSettles

SpecMastra == InitMastra /\ [][NextMastra]_vars

\* SpecExecutes: one Workflow object, built before, on which several
\* execute calls are made, one after another or overlapping.
MaxExecutes == 2
ExecuteCalls == 1..MaxExecutes
ExecuteInputs == {Undefined, "0", "1"}
ExecuteStepLists ==
    {<<>>, <<AddStepOf>>, <<AddStepOf, AddStepOf>>, <<AddStepOf, FailingStep>>,
     <<ThrowingStep, AddStepOf>>, <<CheckedStep, EchoStep>>}

InitExecutes ==
    /\ bs = IdleStep
    /\ \E steps \in ExecuteStepLists, coe \in BOOLEAN :
          wfs = [w \in WfIds |->
                    [NewWorkflow("A", coe) EXCEPT !.steps = steps]]
    /\ calls = [c \in ExecuteCalls |-> IdleCall]
    /\ runnerReg = <<>>
    /\ adapterReg = <<>>
    /\ batch = IdleBatch
    /\ shell = IdleShell
    /\ files = IdleFiles
    /\ facade = IdleFacade

NextExecutes ==
    \/ \E c \in ExecuteCalls, arg \in ExecuteInputs : Execute(c, "w1", arg)
    \/ \E c \in ExecuteCalls : RunSettles(c)
    \/ \E c \in ExecuteCalls : StepResolved(c)

SpecExecutes == InitExecutes /\ [][NextExecutes]_vars

\* SpecAddStep: one Workflow object to which steps are added before,
\* between and during execute calls; every caller of execute keeps the
\* getSteps() copy it took when it made the call.
LateSteps == {AddStepOf, FailingStep}

InitAddStep ==
    /\ bs = IdleStep
    /\ \E coe \in BOOLEAN :
          wfs = [w \in WfIds |-> NewWorkflow("A", coe)]
    /\ calls = [c \in CallIds |-> IdleCall]
    /\ runnerReg = <<>>
    /\ adapterReg = <<>>
    /\ batch = IdleBatch
    /\ shell = IdleShell
    /\ files = IdleFiles
    /\ facade = IdleFacade

NextAddStep ==
    \/ \E s \in LateSteps : AddStep("w1", s)
    \/ \E c \in CallIds, arg \in RunnerInputs : ExecuteAfterGetSteps(c, "w1", arg)
    \/ \E c \in CallIds : RunSettles(c)
    \/ \E c \in CallIds : StepResolved(c)

SpecAddStep == InitAddStep /\ [][NextAddStep]_vars

\* SpecRegistered: a legacy Workflow registered with a RunnerAdapter, the
\* caller keeping the getSteps() copy it took at registration, addStep
\* calls on the Workflow at any time, and runWorkflow calls.
InitRegistered ==
    /\ bs = IdleStep
    /\ \E steps \in {<<>>, <<AddStepOf>>}, coe \in BOOLEAN :
          wfs = [w \in WfIds |->
                    [NewWorkflow("A", coe) EXCEPT !.steps = steps]]
    /\ calls = [c \in CallIds |-> IdleCall]
    /\ runnerReg = <<>>
    /\ adapterReg = <<>>
    /\ batch = IdleBatch
    /\ shell = IdleShell
    /\ files = IdleFiles
    /\ facade = IdleFacade

NextRegistered ==
    \/ \E id \in ExplicitIds : AdapterRegisterAfterGetSteps("w1", id)
    \/ \E s \in LateSteps : AddStep("w1", s)
    \/ \E c \in CallIds, k \in {"A", "C"}, arg \in RunnerInputs :
          AdapterRunWorkflow(c, k, arg)
    \/ \E c \in CallIds : RunSettles(c)
    \/ \E c \in CallIds : StepResolved(c)

SpecRegistered == InitRegistered /\ [][NextRegistered]_vars

\* SpecShell: a ShellStep constructed with the default list or a list of
\* its own, addAllowedCommand calls at any time, and one call of execute
\* or of executeWithValidation.
InitShell ==
    /\ bs = IdleStep
    /\ wfs = [w \in WfIds |-> NewWorkflow("A", FALSE)]
    /\ calls = [c \in CallIds |-> IdleCall]
    /\ runnerReg = <<>>
    /\ adapterReg = <<>>
    /\ batch = IdleBatch
    /\ facade = IdleFacade
    /\ \E list \in ConstructedLists :
          shell = [IdleShell EXCEPT !.allowlist = list, !.constructed = list]
    /\ files = IdleFiles

NextShell ==
    \/ \E commandName \in AddedCommands : ShellAddAllowedCommand(commandName)
    \/ \E command \in ShellCommands : ShellStepExecute([command |-> command])
    \/ \E command \in ShellCommands :
          ShellExecuteWithValidation([command |-> command])
    \/ \E outcome \in ExecaOutcomes : ShellProcessSettles(outcome)

SpecShell == InitShell /\ [][NextShell]_vars

\* SpecFiles: one FileUtils operation on any path and base directory.
InitFiles ==
    /\ bs = IdleStep
    /\ wfs = [w \in WfIds |-> NewWorkflow("A", FALSE)]
    /\ calls = [c \in CallIds |-> IdleCall]
    /\ runnerReg = <<>>
    /\ adapterReg = <<>>
    /\ batch = IdleBatch
    /\ facade = IdleFacade
    /\ shell = IdleShell
    /\ files = IdleFiles

NextFiles ==
    \E op \in FileOps, filePath \in Paths, baseDir \in BaseDirs,
       fsSucceeds \in BOOLEAN :
        FileOperation(op, filePath, baseDir, fsSucceeds)

SpecFiles == InitFiles /\ [][NextFiles]_vars

\* SpecChain: a RunnerAdapter with every provider instance registered
\* under its name, and one runWorkflowsSequential call over any list of
\* configs, "X" being a name that is not registered.
ChainKeys == ProviderInstances \cup {"X"}
ChainConfigs ==
    UNION {[1..n -> [key : ChainKeys, input : BatchInputs]] : n \in 0..MaxChain}

RECURSIVE RegisterAll(_, _)
RegisterAll(m, insts) ==
    IF insts = {}
    THEN m
    ELSE LET inst == CHOOSE x \in insts : TRUE
         IN  RegisterAll(MapSet(m, inst, inst), insts \ {inst})

InitChain ==
    /\ bs = IdleStep
    /\ wfs = [w \in WfIds |-> NewWorkflow("A", FALSE)]
    /\ calls = [c \in CallIds |-> IdleCall]
    /\ runnerReg = <<>>
    /\ adapterReg = RegisterAll(<<>>, ProviderInstances)
    /\ batch = IdleChain
    /\ facade = IdleFacade
    /\ shell = IdleShell
    /\ files = IdleFiles

NextChain ==
    \/ \E configs \in ChainConfigs : ChainRunWorkflowsSequential(configs)
    \/ ChainEntrySettles

SpecChain == InitChain /\ [][NextChain]_vars

(***************************************************************************)
(* Properties                                                              *)
(***************************************************************************)
IsDone(c) == calls[c].pc = "done"
Started(c) == calls[c].pc # "idle"
Failing(results) == {i \in DOMAIN results : ~results[i].success}
FirstFailing(results) ==
    CHOOSE i \in Failing(results) : \A j \in Failing(results) : i <= j
Contains(text, part) == \E i \in DOMAIN text : text[i] = part

\* What the try block of BaseStep.execute throws first, if anything:
\* the input validator, else the run function, else the output validator
\* reading the data of the returned result.
InputRejected(step, input) ==
    step.inputSchema # "none" /\ ~SchemaAccepts(step.inputSchema, input)
RunThrows(step, input) ==
    ~InputRejected(step, input) /\ Run(step, input).kind = "throw"
OutputRejected(step, input) ==
    /\ ~InputRejected(step, input)
    /\ Run(step, input).kind = "return"
    /\ ValidateOutput(step, Run(step, input).value.data).kind = "throw"
SomethingThrew(step, input) ==
    InputRejected(step, input) \/ RunThrows(step, input) \/ OutputRejected(step, input)

\* C1: BaseStep.execute always resolves to a StepResult and never throws,
\* whatever run and the validators do; when something threw the result is
\* {success: false, error} with error an Error, a thrown non-Error value v
\* becoming Error(String(v)); and Workflow.execute over such a step always
\* resolves to a WorkflowResult.
C1_ExecuteNeverThrows ==
    /\ bs.out.kind # "throw"
    /\ bs.pc = "done" =>
          /\ bs.out.kind = "return"
          /\ bs.out.value.success \in BOOLEAN
          /\ SomethingThrew(bs.step, bs.input) =>
                /\ ~bs.out.value.success
                /\ bs.out.value.data = Undefined
                /\ bs.out.value.error.isError
          /\ RunThrows(bs.step, bs.input) =>
                bs.out.value.error =
                    IF bs.step.run = "throwVal" THEN MkError("Error", <<"boom">>)
                    ELSE Run(bs.step, bs.input).thrown
    /\ \A c \in CallIds :
          /\ calls[c].pending.kind # "throw"
          /\ calls[c].outcome.kind # "throw"
          /\ IsDone(c) =>
                /\ calls[c].outcome.kind = "return"
                /\ calls[c].outcome.value.success \in BOOLEAN
                /\ calls[c].outcome.value.results = calls[c].results
                /\ Len(calls[c].results) = 1

C1_Witness ==
    /\ bs.pc = "done"
    /\ bs.step.run = "throwVal"
    /\ bs.out = Return(StepResult(FALSE, Undefined, MkError("Error", <<"boom">>)))
    /\ \E c \in CallIds :
          /\ IsDone(c)
          /\ calls[c].outcome.kind = "return"
          /\ ~calls[c].outcome.value.success

\* C2: with continueOnError=false, execution stops at the first failing
\* step: its result is the last entry of results, results has as many
\* entries as the position of that step, no later step is executed or has
\* its run function invoked, and the WorkflowResult has success=false and
\* that step's error.
C2_HaltOnFirstFailure ==
    \A c \in CallIds :
        (/\ Started(c)
         /\ ~wfs[calls[c].wf].continueOnError
         /\ Failing(calls[c].results) # {}) =>
            LET f == FirstFailing(calls[c].results)
            IN  /\ IsDone(c)
                /\ f = Len(calls[c].results)
                /\ calls[c].execLog[Len(calls[c].execLog)].idx = f
                /\ \A k \in DOMAIN calls[c].execLog : calls[c].execLog[k].idx <= f
                /\ \A k \in DOMAIN calls[c].runLog : calls[c].runLog[k].idx <= f
                /\ calls[c].outcome.kind = "return"
                /\ ~calls[c].outcome.value.success
                /\ calls[c].outcome.value.results = calls[c].results
                /\ calls[c].outcome.value.error = calls[c].results[f].error

C2_Witness ==
    \E c \in CallIds :
        /\ IsDone(c)
        /\ ~wfs[calls[c].wf].continueOnError
        /\ Len(wfs[calls[c].wf].steps) = 3
        /\ Len(calls[c].results) = 2
        /\ calls[c].results[1].success
        /\ ~calls[c].results[2].success
        /\ calls[c].outcome.value.error = MkError("Error", <<"Failed">>)

\* C3: steps run one at a time in the order they were added, a step
\* starting only after the previous one has resolved; the first step
\* receives initialInput and every later step exactly the data of the
\* previous step's result (undefined when it carries none).
C3_SequentialChaining ==
    \A c \in CallIds :
        Started(c) =>
            LET log == calls[c].execLog
                inFlight == IF calls[c].pc \in {"inRun", "stepDone"} THEN 1 ELSE 0
            IN  /\ Len(log) = Len(calls[c].results) + inFlight
                /\ \A i \in DOMAIN log :
                      /\ log[i].idx = i
                      /\ log[i].step = wfs[calls[c].wf].steps[i]
                      /\ log[i].input =
                            IF i = 1 THEN calls[c].initialInput
                            ELSE calls[c].results[i - 1].data
                /\ calls[c].initialInput = DefaultInput(calls[c].arg)
                /\ \A k \in DOMAIN calls[c].runLog :
                      calls[c].runLog[k].input = log[calls[c].runLog[k].idx].input

C3_Witness ==
    \E c \in CallIds :
        /\ IsDone(c)
        /\ wfs[calls[c].wf].continueOnError
        /\ Len(calls[c].execLog) = 3
        /\ calls[c].execLog[1].input = "1"
        /\ calls[c].results[1].data = "2"
        /\ calls[c].execLog[2].input = "2"
        /\ ~calls[c].results[2].success
        /\ calls[c].results[2].data = Undefined
        /\ calls[c].execLog[3].input = Undefined
        /\ Len(calls[c].runLog) = 3
        /\ calls[c].runLog[3].input = Undefined

\* C4: in every WorkflowResult returned, success is true exactly when
\* every entry of results has success=true (vacuously for no steps).
C4_SuccessIffAllSucceeded ==
    \A c \in CallIds :
        (IsDone(c) /\ calls[c].outcome.kind = "return") =>
            LET r == calls[c].outcome.value
            IN  r.success <=> (\A i \in DOMAIN r.results : r.results[i].success)

C4_Witness ==
    \E c \in CallIds :
        /\ IsDone(c)
        /\ Len(calls[c].outcome.value.results) = 2
        /\ ~calls[c].outcome.value.results[1].success
        /\ calls[c].outcome.value.results[2].success
        /\ ~calls[c].outcome.value.success

C4_WitnessNoSteps ==
    \E c \in CallIds :
        /\ IsDone(c)
        /\ calls[c].outcome.value.results = <<>>
        /\ calls[c].outcome.value.success

\* The step of an activation in which Workflow.execute returns, for a
\* workflow with continueOnError=true.
C5_ContinueOnErrorStep ==
    \A c \in CallIds :
        (/\ calls[c].pc # "done"
         /\ calls'[c].pc = "done"
         /\ wfs[calls'[c].wf].continueOnError) =>
            LET n == Len(wfs'[calls'[c].wf].steps)
            IN  /\ Len(calls'[c].results) = n
                /\ Len(calls'[c].execLog) = n
                /\ \A i \in 1..n :
                      /\ calls'[c].execLog[i].idx = i
                      /\ calls'[c].execLog[i].step = wfs'[calls'[c].wf].steps[i]
                /\ calls'[c].outcome.kind = "return"
                /\ calls'[c].outcome.value.results = calls'[c].results
                /\ Failing(calls'[c].results) # {} =>
                      ~calls'[c].outcome.value.success

\* C5: with continueOnError=true, when execute returns it has run every
\* step of the workflow exactly once, in order, whatever failed: results
\* has one entry per step, and success is false when an entry failed.
C5_ContinueOnError == [][C5_ContinueOnErrorStep]_vars

C5_Witness ==
    \E c \in CallIds :
        /\ IsDone(c)
        /\ wfs[calls[c].wf].continueOnError
        /\ Len(calls[c].results) = 3
        /\ calls[c].results[1].success
        /\ ~calls[c].results[2].success
        /\ ~calls[c].outcome.value.success

\* C6: in every WorkflowResult returned, error is the error of the
\* lowest-index failing entry of results, and is absent when none failed.
C6_FirstFailureError ==
    \A c \in CallIds :
        (IsDone(c) /\ calls[c].outcome.kind = "return") =>
            LET r == calls[c].outcome.value
            IN  /\ (\A i \in DOMAIN r.results : r.results[i].success) =>
                       r.error = NoError
                /\ \A i \in DOMAIN r.results :
                       (/\ ~r.results[i].success
                        /\ \A j \in 1..(i - 1) : r.results[j].success) =>
                           r.error = r.results[i].error

C6_Witness ==
    \E c \in CallIds :
        /\ IsDone(c)
        /\ wfs[calls[c].wf].continueOnError
        /\ Len(calls[c].results) = 3
        /\ calls[c].results[1].success
        /\ calls[c].results[2].error = MkError("Error", <<"Failed">>)
        /\ calls[c].results[3].error = MkError("Error", <<"boom">>)
        /\ calls[c].outcome.value.error = MkError("Error", <<"Failed">>)

\* C7: the result of RunnerAdapter.runWorkflow on a registered legacy
\* Workflow has success=false whenever a step of the workflow failed, with
\* error the first failing step's error, and success=true only when every
\* step that ran succeeded.
C7_AdapterSurfacesFailure ==
    \A c \in CallIds :
        (IsDone(c) /\ calls[c].via = "adapter" /\ calls[c].outcome.kind = "return"
            /\ calls[c].wf # "none") =>
            LET r == calls[c].outcome.value
                stepResults == calls[c].results
            IN  /\ Failing(stepResults) # {} =>
                      /\ ~r.success
                      /\ r.error = stepResults[FirstFailing(stepResults)].error
                /\ r.success => Failing(stepResults) = {}

\* C8: when the input fails the input validator, execute returns
\* success=false with the validator's error and run is never called;
\* otherwise run is called exactly once, with that same input.
C8_InputValidationGuardsRun ==
    /\ bs.pc # "idle" =>
          IF InputRejected(bs.step, bs.input)
          THEN /\ bs.pc = "done"
               /\ bs.runLog = <<>>
               /\ bs.out = Return(StepResult(FALSE, Undefined,
                              MkError("ZodError", <<"Expected ", bs.step.inputSchema>>)))
          ELSE bs.runLog = <<bs.input>>
    /\ bs.pc = "idle" => bs.runLog = <<>>

C8_Witness ==
    /\ bs.pc = "done"
    /\ bs.step.inputSchema = "number"
    /\ bs.input = "a"
    /\ bs.runLog = <<>>
    /\ ~bs.out.value.success

\* C9: the output validator is applied exactly when one is configured, run
\* returned success=true and its data is not undefined: a result returned
\* with success=false is handed back unchanged, and a successful result
\* whose data the validator rejects becomes success=false with the
\* validation error.
C9_OutputValidation ==
    (bs.pc = "done" /\ ~InputRejected(bs.step, bs.input)
        /\ Run(bs.step, bs.input).kind = "return") =>
        LET r == Run(bs.step, bs.input).value
            applies == /\ bs.step.outputSchema # "none"
                       /\ r.success
                       /\ r.data # Undefined
        IN  IF applies /\ ~SchemaAccepts(bs.step.outputSchema, r.data)
            THEN bs.out = Return(StepResult(FALSE, Undefined,
                            MkError("ZodError", <<"Expected ", bs.step.outputSchema>>)))
            ELSE bs.out = Return(r)

RegistryKeys(reg) == {reg[i].key : i \in DOMAIN reg}

\* The step in which runWorkflow is called with a key the registry lacks.
C10_NotFoundStep ==
    \A c \in CallIds :
        (/\ calls[c].pc = "idle"
         /\ calls'[c].pc # "idle"
         /\ \/ calls'[c].via = "runner" /\ calls'[c].key \notin RegistryKeys(runnerReg)
            \/ calls'[c].via = "adapter" /\ calls'[c].key \notin RegistryKeys(adapterReg)) =>
            /\ calls'[c].pc = "done"
            /\ calls'[c].outcome.kind = "throw"
            /\ calls'[c].outcome.thrown.isError
            /\ Contains(calls'[c].outcome.thrown.text, calls'[c].key)
            /\ calls'[c].execLog = <<>>
            /\ calls'[c].runLog = <<>>
            /\ \A d \in CallIds \ {c} : calls'[d] = calls[d]
            /\ runnerReg' = runnerReg
            /\ adapterReg' = adapterReg
            /\ wfs' = wfs

\* C10: Runner.runWorkflow and RunnerAdapter.runWorkflow, called with an
\* id that is not a key of the registry, throw an error whose message
\* contains the id, run no step of any workflow and leave the registry
\* unchanged, in every registry state.
C10_NotFound == [][C10_NotFoundStep]_vars

C10_Witness ==
    \E c \in CallIds :
        /\ IsDone(c)
        /\ calls[c].via = "adapter"
        /\ calls[c].key = "B"
        /\ "A" \in RegistryKeys(adapterReg)
        /\ "B" \notin RegistryKeys(adapterReg)
        /\ "A" \in RegistryKeys(runnerReg)
        /\ calls[c].outcome =
              Throw(MkError("WorkflowExecutionError", <<"Workflow '", "B", "' not found">>))
        /\ calls[c].runLog = <<>>

(***************************************************************************)
(* Properties of runWorkflowsParallel and runWorkflowsSequential           *)
(***************************************************************************)
\* What Workflow.execute does on a workflow run alone: the steps it calls
\* with their inputs, the results it collects, and whether it comes to an
\* end (it does not when it reaches a step whose run never settles).
RECURSIVE StepsAlone(_, _, _, _, _)
StepsAlone(wf, i, input, results, log) ==
    IF i > Len(wf.steps)
    THEN [results |-> results, log |-> log, finished |-> TRUE]
    ELSE LET step == wf.steps[i]
             entry == [idx |-> i, step |-> step, input |-> input]
             begun == ExecuteBegin(step, input)
         IN  IF begun.runCalled /\ ~Settles(step)
             THEN [results |-> results, log |-> Append(log, entry),
                   finished |-> FALSE]
             ELSE LET result == IF begun.runCalled
                                THEN ExecuteSettle(step, Run(step, input)).value
                                ELSE begun.completion.value
                  IN  IF ~result.success /\ ~wf.continueOnError
                      THEN [results |-> Append(results, result),
                            log |-> Append(log, entry), finished |-> TRUE]
                      ELSE StepsAlone(wf, i + 1, result.data,
                                      Append(results, result), Append(log, entry))

Alone(wf, arg) ==
    StepsAlone(wf, 1, IF arg = Undefined THEN "{}" ELSE arg, <<>>, <<>>)

IsPrefix(s, t) == Len(s) <= Len(t) /\ \A i \in DOMAIN s : s[i] = t[i]

Registry(via) == IF via = "runner" THEN runnerReg ELSE adapterReg
Entries == DOMAIN batch.configs
Registered(i) == MapHas(Registry(batch.via), batch.configs[i].key)
EntryWorkflow(i) == wfs[MapGet(Registry(batch.via), batch.configs[i].key)]
Resolved == batch.pc = "done" /\ batch.outcome.kind = "return"

\* C11: in runWorkflowsParallel, every listed registered workflow runs the
\* steps it runs when run alone on its input and ends with the result it
\* has then, whatever the other listed workflows do and whether or not
\* they fail; and when the call resolves, it resolves with the results of
\* all the listed workflows.
C11_ParallelIndependence ==
    batch.kind = "parallel" =>
        /\ \A i \in Entries :
              Registered(i) =>
                  LET alone == Alone(EntryWorkflow(i), batch.configs[i].input)
                  IN  /\ IsPrefix(calls[i].execLog, alone.log)
                      /\ IsPrefix(calls[i].results, alone.results)
                      /\ IsDone(i) =>
                            /\ alone.finished
                            /\ calls[i].execLog = alone.log
                            /\ calls[i].results = alone.results
                            /\ calls[i].outcome.kind = "return"
                            /\ IF batch.via = "runner"
                               THEN calls[i].outcome.value.results = alone.results
                               ELSE calls[i].outcome.value.data.results = alone.results
        /\ Resolved =>
              /\ Len(batch.outcome.value) = Len(batch.configs)
              /\ \A i \in Entries :
                    /\ IsDone(i)
                    /\ \E j \in DOMAIN batch.outcome.value :
                          batch.outcome.value[j] = calls[i].outcome.value

C11_Witness ==
    /\ batch.kind = "parallel"
    /\ batch.via = "runner"
    /\ Resolved
    /\ Len(batch.configs) = 2
    /\ batch.configs[1].key = "B"
    /\ batch.configs[2] = [key |-> "A", input |-> "1"]
    /\ Len(batch.outcome.value) = 2
    /\ ~calls[1].outcome.value.success
    /\ calls[2].outcome.value.success
    /\ calls[2].results = <<StepResult(TRUE, "2", NoError)>>

\* C12: when runWorkflowsParallel resolves, it resolves with an array
\* that has exactly one result per config, the result at position i being
\* the one the runWorkflow call for config i resolved to, in every
\* interleaving of the workflows' steps.
C12_ParallelPositions ==
    (batch.kind = "parallel" /\ Resolved) =>
        /\ Len(batch.outcome.value) = Len(batch.configs)
        /\ \A i \in Entries :
              /\ IsDone(i)
              /\ calls[i].key = batch.configs[i].key
              /\ calls[i].arg = batch.configs[i].input
              /\ calls[i].outcome.kind = "return"
              /\ batch.outcome.value[i] = calls[i].outcome.value

C12_Witness ==
    /\ batch.kind = "parallel"
    /\ Resolved
    /\ batch.configs = <<[key |-> "A", input |-> "1"], [key |-> "B", input |-> "1"]>>
    /\ batch.via = "runner"
    /\ batch.outcome.value[1].success
    /\ batch.outcome.value[1].results = <<StepResult(TRUE, "2", NoError)>>
    /\ ~batch.outcome.value[2].success

\* A state of a parallel run in which the second workflow has finished
\* and the first has not.
C12_WitnessSecondFirst ==
    /\ batch.kind = "parallel"
    /\ batch.pc = "running"
    /\ Len(batch.configs) = 2
    /\ calls[1].pc = "inRun"
    /\ calls[2].pc = "done"
    /\ calls[2].outcome.kind = "return"

\* The fair behaviours of a parallel run: a continuation that is ready to run
\* is run, and the promise of a run function that settles does settle.
\* Configs that name registered workflows only.
RegisteredConfigs ==
    UNION {[1..n -> [key : BatchKeys \ {"X"}, input : BatchInputs]] :
              n \in 0..MaxConfigs}

NextParallel ==
    \/ \E via \in Vias, configs \in RegisteredConfigs :
          RunWorkflowsParallel(via, configs)
    \/ ParallelSettles
    \/ \E c \in Slots : RunSettles(c)
    \/ \E c \in Slots : StepResolved(c)

SpecParallelLive ==
    /\ InitBatch
    /\ [][NextParallel]_vars
    /\ \A c \in Slots : WF_vars(RunSettles(c)) /\ WF_vars(StepResolved(c))
    /\ WF_vars(ParallelSettles)

Hangs(i) == ~Alone(EntryWorkflow(i), batch.configs[i].input).finished

\* C13: runWorkflowsParallel has started every listed workflow when it
\* begins to wait, and every listed registered workflow none of whose own
\* steps hangs runs all its steps and finishes, also when a step of
\* another listed workflow never resolves.
C13_ParallelStartsAll ==
    /\ [](batch.kind = "parallel" => \A i \in Entries : Started(i))
    /\ \A i \in Slots :
          (batch.kind = "parallel" /\ i \in Entries /\ Registered(i) /\ ~Hangs(i))
              ~> (/\ IsDone(i)
                  /\ calls[i].wf # "none"
                  /\ calls[i].execLog =
                        Alone(wfs[calls[i].wf], calls[i].arg).log)

C13_Witness ==
    /\ batch.kind = "parallel"
    /\ batch.pc = "running"
    /\ Len(batch.configs) = 2
    /\ batch.configs[1].key = "H"
    /\ batch.configs[2].key = "B"
    /\ calls[1].pc = "inRun"
    /\ calls[1].idx = 2
    /\ IsDone(2)
    /\ Len(calls[2].execLog) = 2

\* The fair behaviours of a parallel run over configs of which at least
\* one names a workflow that is not registered.
UnknownConfigs ==
    {configs \in BatchConfigs :
        \E i \in DOMAIN configs : configs[i].key = "X"}

NextParallelUnknown ==
    \/ \E via \in Vias, configs \in UnknownConfigs :
          RunWorkflowsParallel(via, configs)
    \/ ParallelSettles
    \/ \E c \in Slots : RunSettles(c)
    \/ \E c \in Slots : StepResolved(c)

SpecParallelUnknown ==
    /\ InitBatch
    /\ [][NextParallelUnknown]_vars
    /\ \A c \in Slots : WF_vars(RunSettles(c)) /\ WF_vars(StepResolved(c))
    /\ WF_vars(ParallelSettles)

FirstUnknown ==
    CHOOSE i \in Entries :
        /\ ~Registered(i)
        /\ \A j \in Entries : ~Registered(j) => i <= j

NotFoundError(via, key) ==
    IF via = "runner" THEN RunnerNotFound(key) ELSE AdapterNotFound(key)

\* C27: when a config of runWorkflowsParallel names a workflow that is
\* not registered, the call rejects with the not-found error of that
\* workflow (of the first such config) and has no results, and every
\* listed registered workflow, before or after it, has been started and,
\* unless one of its own steps hangs, goes on to run the steps it runs
\* alone and to finish.
C27_ParallelUnknown ==
    /\ []((batch.kind = "parallel" /\ \E i \in Entries : ~Registered(i)) =>
            /\ \A i \in Entries :
                  /\ Started(i)
                  /\ Registered(i) =>
                        /\ Len(calls[i].execLog) > 0
                        /\ IsPrefix(calls[i].execLog,
                                    Alone(EntryWorkflow(i),
                                          batch.configs[i].input).log)
            /\ batch.pc = "done" =>
                  /\ batch.outcome =
                        Throw(NotFoundError(batch.via,
                                            batch.configs[FirstUnknown].key))
                  /\ batch.results = <<>>)
    /\ batch.kind = "parallel" ~> batch.pc = "done"
    /\ \A i \in Slots :
          (batch.kind = "parallel" /\ i \in Entries /\ Registered(i) /\ ~Hangs(i))
              ~> (/\ IsDone(i)
                  /\ calls[i].wf # "none"
                  /\ calls[i].outcome.kind = "return"
                  /\ calls[i].execLog =
                        Alone(wfs[calls[i].wf], calls[i].arg).log)

\* The call has rejected for its first config and the workflow of the
\* second config has run both of its steps.
C27_Witness ==
    /\ batch.kind = "parallel"
    /\ batch.pc = "done"
    /\ batch.via = "runner"
    /\ batch.configs = <<[key |-> "X", input |-> "1"], [key |-> "B", input |-> "1"]>>
    /\ batch.outcome = Throw(RunnerNotFound("X"))
    /\ wfs["w2"].continueOnError
    /\ IsDone(2)
    /\ Len(calls[2].execLog) = 2

\* The call has rejected while the workflow listed before the unknown one
\* is still in its first step.
C27_WitnessStillRunning ==
    /\ batch.kind = "parallel"
    /\ batch.pc = "done"
    /\ batch.configs[1].key = "A"
    /\ batch.configs[2].key = "X"
    /\ batch.outcome.kind = "throw"
    /\ calls[1].pc = "inRun"

\* C14: runWorkflowsSequential runs the entries in array order, one at a
\* time: entry N+1 is started only once entry N has resolved and its
\* result is in the results; it goes on after an entry whose result has
\* success=false; and it returns one result per config, in config order.
C14_SequentialOrder ==
    batch.kind = "sequential" =>
        /\ \A i \in Slots :
              Started(i) =>
                  /\ i \in Entries
                  /\ calls[i].key = batch.configs[i].key
                  /\ i > 1 =>
                        /\ IsDone(i - 1)
                        /\ calls[i - 1].outcome.kind = "return"
                        /\ Len(batch.results) >= i - 1
                        /\ batch.results[i - 1] = calls[i - 1].outcome.value
        /\ batch.pc = "running" =>
              /\ batch.idx = Len(batch.results) + 1
              /\ Started(batch.idx)
              /\ \A j \in Slots : j > batch.idx => ~Started(j)
        /\ Resolved =>
              /\ batch.outcome.value = batch.results
              /\ Len(batch.results) = Len(batch.configs)
              /\ \A i \in Entries :
                    batch.results[i] = calls[i].outcome.value

C14_Witness ==
    /\ batch.kind = "sequential"
    /\ batch.via = "runner"
    /\ Resolved
    /\ Len(batch.configs) = 2
    /\ batch.configs[1].key = "B"
    /\ batch.configs[2].key = "A"
    /\ ~batch.results[1].success
    /\ batch.results[2].success
    /\ Len(calls[2].execLog) = 1

\* The step results of entry i show a run in which every step succeeded.
RunSucceeded(i) ==
    calls[i].outcome.kind = "return" /\ Failing(calls[i].results) = {}

\* The data carried by the result of entry i: for the Runner the data of
\* the last step result, for the RunnerAdapter the data of the result.
CarriedData(i) ==
    IF batch.via = "runner"
    THEN calls[i].results[Len(calls[i].results)].data
    ELSE AsValue(calls[i].outcome.value.data)

\* The fallback input in force after the first i entries.
RECURSIVE Fallback(_)
Fallback(i) ==
    IF i = 0 THEN Undefined
    ELSE IF RunSucceeded(i) /\ calls[i].results # <<>>
         THEN CarriedData(i)
         ELSE Fallback(i - 1)

\* C15: in runWorkflowsSequential an entry receives its own input when
\* its config gives one; otherwise the data carried by the previous
\* entry's result if that run succeeded; otherwise the fallback input that
\* was in force for the previous entry.
C15_SequentialInput ==
    batch.kind = "sequential" =>
        \A i \in Entries :
            Started(i) =>
                calls[i].arg =
                    IF batch.configs[i].input # Undefined
                    THEN batch.configs[i].input
                    ELSE Fallback(i - 1)

\* The same, for the Runner alone.
C15_SequentialInputRunner ==
    batch.via = "runner" => C15_SequentialInput

(***************************************************************************)
(* Properties of the registries                                            *)
(***************************************************************************)
\* getWorkflows(): [...this.workflows.keys()]
GetWorkflows(reg) == MapKeys(reg)
ListedOnce(reg) ==
    \A i, j \in DOMAIN GetWorkflows(reg) :
        GetWorkflows(reg)[i] = GetWorkflows(reg)[j] => i = j
OnlyStepsOf(c, w) ==
    \A i \in DOMAIN c.execLog :
        /\ c.execLog[i].idx \in DOMAIN wfs[w].steps
        /\ c.execLog[i].step = wfs[w].steps[c.execLog[i].idx]

\* A step of a Runner or RunnerAdapter: a registration puts the workflow
\* under its key and leaves every other entry as it was; no key is lost or
\* listed twice; a runWorkflow call with a registered key runs the
\* workflow the registry holds under that key, and only steps of it.
C16_RegistryStep ==
    /\ ListedOnce(runnerReg') /\ ListedOnce(adapterReg')
    /\ RegistryKeys(runnerReg) \subseteq RegistryKeys(runnerReg')
    /\ RegistryKeys(adapterReg) \subseteq RegistryKeys(adapterReg')
    /\ \A w \in WfIds :
          (wfs[w].hasGetName /\ RunnerRegisterWorkflow(w)) =>
              /\ MapGet(runnerReg', wfs[w].name) = w
              /\ \A k \in RegistryKeysRun \ {wfs[w].name} :
                    MapGet(runnerReg', k) = MapGet(runnerReg, k)
    /\ \A w \in WfIds, id \in ExplicitIds :
          AdapterRegisterWorkflow(w, id) =>
              LET key == GetWorkflowId(wfs[w], id)
              IN  /\ MapGet(adapterReg', key) = w
                  /\ \A k \in RegistryKeysRun \ {key} :
                        MapGet(adapterReg', k) = MapGet(adapterReg, k)
    /\ \A c \in CallIds :
          (calls[c].pc = "idle" /\ calls'[c].pc # "idle") =>
              LET reg == IF calls'[c].via = "runner" THEN runnerReg ELSE adapterReg
              IN  MapHas(reg, calls'[c].key) =>
                      /\ calls'[c].wf = MapGet(reg, calls'[c].key)
                      /\ calls'[c].execLog # <<>>
    /\ \A c \in CallIds :
          calls'[c].wf # "none" => OnlyStepsOf(calls'[c], calls'[c].wf)

\* C16: after any sequence of registerWorkflow calls, getWorkflows() lists
\* every registered key exactly once, no entry is ever removed, and
\* runWorkflow(k) runs the workflow most recently registered under k and
\* no step of a workflow registered under k before.
C16_Registry == [][C16_RegistryStep]_vars

C16_Witness ==
    \E c \in CallIds :
        /\ IsDone(c)
        /\ calls[c].via = "runner"
        /\ calls[c].key = "A"
        /\ calls[c].wf = "w2"
        /\ calls[c].execLog = <<[idx |-> 1, step |-> FailingStep, input |-> "1"]>>
        /\ runnerReg = <<[key |-> "A", value |-> "w1"]>>
        /\ Len(adapterReg) = 2
        /\ MapGet(adapterReg, "C") = "w2"

\* The step of RunnerAdapter.registerWorkflow(w, id), and of a
\* runWorkflow call with a registered key.
C17_RegisterStep ==
    /\ \A w \in WfIds, id \in ExplicitIds :
          AdapterRegisterWorkflow(w, id) =>
              LET key == IF id # "" THEN id
                         ELSE IF wfs[w].id \notin {Undefined, ""} THEN wfs[w].id
                         ELSE IF wfs[w].hasGetName THEN wfs[w].name
                         ELSE "unnamed-workflow"
              IN  MapGet(adapterReg', key) = w
    /\ \A c \in CallIds, k \in RegistryKeysRun, arg \in RunnerInputs :
          (AdapterRunWorkflow(c, k, arg) /\ MapHas(adapterReg, k)) =>
              /\ calls'[c].wf = MapGet(adapterReg, k)
              /\ calls'[c].execLog =
                    <<[idx |-> 1, step |-> wfs[MapGet(adapterReg, k)].steps[1],
                       input |-> arg]>>

\* C17: RunnerAdapter.registerWorkflow(w, id) stores w under the explicit
\* id when one is given (and not empty); else under the id property of w
\* when w has one (and it is not empty); else under w.getName() when w
\* has that method; else under "unnamed-workflow"; and runWorkflow with
\* that key runs w.
C17_RegistrationIdentity == [][C17_RegisterStep]_vars

C17_Witness ==
    \E c \in CallIds :
        /\ IsDone(c)
        /\ calls[c].via = "adapter"
        /\ calls[c].key = "unnamed-workflow"
        /\ calls[c].wf = "w2"
        /\ calls[c].execLog = <<[idx |-> 1, step |-> FailingStep, input |-> "1"]>>
        /\ wfs["w2"].id = Undefined
        /\ ~wfs["w2"].hasGetName
        /\ MapGet(adapterReg, "A") = "w1"
        /\ MapGet(adapterReg, "C") = "w2"

\* An object with an id property and getName is stored under its id.
C17_WitnessIdProperty ==
    /\ wfs["w2"].id = "D"
    /\ wfs["w2"].hasGetName
    /\ MapGet(adapterReg, "D") = "w2"
    /\ ~MapHas(adapterReg, "A")

(***************************************************************************)
(* Properties of WorkflowFacade and MastraAdapter                          *)
(***************************************************************************)
\* The step in which facade.execute is called, and the steps after it.
C18_ExecuteStep ==
    /\ (facade.act.pc = "idle" /\ facade'.act.pc # "idle") =>
          LET a == facade'.act
          IN  IF a.byId
              THEN IF ~MapHas(facade.reg, a.key)
                   THEN /\ a.pc = "done"
                        /\ a.outcome.kind = "throw"
                        /\ a.outcome.thrown.isError
                        /\ a.outcome.thrown.name = "WorkflowExecutionError"
                        /\ Contains(a.outcome.thrown.text, a.key)
                        /\ a.outcome.thrown.workflowId = a.key
                        /\ a.log = <<>>
                        /\ facade'.providerLog = facade.providerLog
                   ELSE facade'.providerLog =
                           Append(facade.providerLog,
                                  [inst |-> MapGet(facade.reg, a.key),
                                   input |-> a.input])
              ELSE facade'.providerLog =
                      Append(facade.providerLog,
                             [inst |-> a.key, input |-> a.input])
    /\ facade.act.pc # "idle" => facade'.providerLog = facade.providerLog
    /\ (facade'.act.pc = "done" /\ facade'.act.inst # "none") =>
          /\ facade'.act.providerResult.kind = "return"
          /\ facade'.act.outcome = facade'.act.providerResult

C18_WitnessInstance ==
    /\ facade.act.pc = "done"
    /\ ~facade.act.byId
    /\ facade.act.key = "i2"
    /\ facade.reg = <<>>
    /\ facade.providerLog = <<[inst |-> "i2", input |-> "1"]>>
    /\ facade.act.outcome.kind = "return"
    /\ facade.act.outcome.value.success

\* C19: after createWorkflow(config), facade.execute(config.id, ...) runs
\* exactly the steps the config had at registration, doing what they did
\* then, whatever the callers write afterwards to the returned workflow,
\* to its steps list, to a step instance or to the config.steps array.
C19_ReadOnlyInDepth ==
    (facade.act.pc # "idle" /\ facade.act.byId /\ facade.act.inst # "none") =>
        LET definition == facade.insts[facade.act.inst].definition
            log == facade.act.log
        IN  /\ Len(log) <= Len(definition)
            /\ \A k \in DOMAIN log :
                  /\ log[k].step = definition[k].step
                  /\ log[k].fn = definition[k].fn
            /\ (facade.act.pc = "done" /\ facade.act.outcome.value.success) =>
                  Len(log) = Len(definition)

\* The part of C19 the code provides: the returned workflow object and
\* its steps list cannot be written.
C19_FrozenObject ==
    facade.insts["i1"].exists =>
        /\ facade.insts["i1"].hasExecute
        /\ Len(facade.insts["i1"].steps) = Len(facade.insts["i1"].definition)
        /\ \A k \in DOMAIN facade.insts["i1"].steps :
              facade.insts["i1"].steps[k] = facade.insts["i1"].definition[k].step

C19_FrozenObjectWitness ==
    /\ facade.typeErrors = {"workflow", "steps"}
    /\ facade.act.pc = "done"
    /\ facade.act.byId

\* C20: MastraAdapter.execute on an instance without an execute function
\* runs the steps of the instance in list order, one at a time, the first
\* on the input and each later one on the value the previous one
\* returned; when every step returns, the result has success=true and its
\* data is the value the last step returned, or the input when the
\* instance has no steps.  (When a step throws, no later step runs and the
\* result has success=false and the error.)
C20_DerivedExecution ==
    (facade.act.pc # "idle" /\ facade.act.inst # "none"
        /\ ~facade.insts[facade.act.inst].hasExecute) =>
        LET a == facade.act
            steps == facade.insts[a.inst].steps
            inFlight == IF a.pc = "inStep" THEN 1 ELSE 0
            threw == a.pc = "done" /\ Len(a.log) > Len(a.returns)
        IN  /\ Len(a.log) <= Len(steps)
            /\ Len(a.log) = Len(a.returns) + inFlight + (IF threw THEN 1 ELSE 0)
            /\ \A k \in DOMAIN a.log :
                  /\ a.log[k].step = steps[k]
                  /\ a.log[k].input = IF k = 1 THEN a.input ELSE a.returns[k - 1]
            /\ \A k \in DOMAIN a.returns :
                  Return(a.returns[k]) =
                      StepInstanceExecute(a.log[k].fn, a.log[k].input)
            /\ (a.pc = "done" /\ ~threw) =>
                  /\ Len(a.log) = Len(steps)
                  /\ a.outcome.kind = "return"
                  /\ a.outcome.value.success
                  /\ a.outcome.value.error = NoError
                  /\ a.outcome.value.data =
                        IF steps = <<>> THEN a.input ELSE a.returns[Len(steps)]
            /\ threw =>
                  /\ a.outcome.kind = "return"
                  /\ ~a.outcome.value.success
                  /\ a.outcome.value.error.isError

C20_Witness ==
    /\ facade.act.pc = "done"
    /\ facade.act.inst = "i2"
    /\ facade.insts["i2"].steps = <<"s1", "s2">>
    /\ facade.act.input = "1"
    /\ facade.act.returns = <<"2", "2">>
    /\ facade.act.outcome.value.success
    /\ facade.act.outcome.value.data = "2"

C20_WitnessNoSteps ==
    /\ facade.act.pc = "done"
    /\ facade.act.inst = "i2"
    /\ facade.insts["i2"].steps = <<>>
    /\ facade.act.outcome.value.success
    /\ facade.act.outcome.value.data = facade.act.input

\* What a finished MastraAdapter.execute call went through.
ActDone == facade.act.pc = "done" /\ facade.act.inst # "none"
InputThrew ==
    WorkflowInputCheck(facade, facade.act.inst, facade.act.input).kind = "throw"
StepThrew == Len(facade.act.log) > Len(facade.act.returns)
LastCalled == facade.act.log[Len(facade.act.log)]
FinalValue ==
    IF facade.act.returns = <<>>
    THEN facade.act.input
    ELSE facade.act.returns[Len(facade.act.returns)]
OutputThrew ==
    /\ ~InputThrew
    /\ ~StepThrew
    /\ WorkflowOutputCheck(facade, facade.act.inst, FinalValue).kind = "throw"

\* C21: MastraAdapter.execute never throws.  When the input validator of
\* the workflow, a step or the output validator throws, it returns
\* success=false, data undefined and an Error (the thrown Error itself, or
\* a new Error around String(value) for any other thrown value); the
\* throwing step is the last one called.  In every other case it returns
\* success=true after calling every step.
C21_ExecuteNeverThrows ==
    ActDone =>
        LET a == facade.act
            result == a.outcome.value
        IN  /\ a.outcome.kind = "return"
            /\ InputThrew =>
                  /\ a.log = <<>>
                  /\ result = CreateErrorResult(
                        WorkflowInputCheck(facade, a.inst, a.input).thrown)
            /\ StepThrew =>
                  LET thrown == StepInstanceExecute(LastCalled.fn,
                                                    LastCalled.input).thrown
                  IN  /\ Len(a.log) = Len(a.returns) + 1
                      /\ ~result.success
                      /\ result.data = Undefined
                      /\ result.error.isError
                      /\ result.error.text = thrown.text
                      /\ thrown.isError => result.error = thrown
            /\ OutputThrew =>
                  /\ ~result.success
                  /\ result.data = Undefined
                  /\ result.error.isError
                  /\ Contains(result.error.text, "Workflow output")
            /\ (InputThrew \/ StepThrew \/ OutputThrew) <=> ~result.success
            /\ result.success =>
                  /\ Len(a.log) = Len(StepsArray(facade, a.inst))
                  /\ result.error = NoError

\* The second of three steps throws a value that is not an Error: the
\* result carries an Error around it and the third step was not called.
C21_Witness ==
    /\ ActDone
    /\ Len(StepsArray(facade, facade.act.inst)) = 3
    /\ Len(facade.act.log) = 2
    /\ LastCalled.fn = ThrowValueStep
    /\ facade.act.outcome = Return(CreateErrorResult(MkThrownValue(<<"boom">>)))
    /\ facade.act.outcome.value.error = MkError("Error", <<"boom">>)

\* The output validator of the workflow throws after every step returned.
C21_WitnessValidator ==
    /\ ActDone
    /\ OutputThrew
    /\ Len(facade.act.log) = 3
    /\ ~facade.act.outcome.value.success

\* A configured schema that the value fails.
Rejects(schema, v) == schema # "none" /\ ~SchemaAccepts(schema, v)
IsValidationError(error, prefix) ==
    /\ error.isError
    /\ Len(error.text) >= 2
    /\ error.text[1] = prefix
    /\ error.text[2] = " validation failed: "

\* C22: for a step made by createStep, an input that fails the configured
\* inputSchema never reaches the function of the config and the call fails
\* with an "Input validation failed" error; an output that fails the
\* configured outputSchema is not returned and the call fails with an
\* "Output validation failed" error; with no schema the function is called
\* with any input and its value is returned as it is.  For a workflow made
\* by createWorkflow the same holds with all of its steps in place of the
\* function and the prefixes "Workflow input" and "Workflow output".
C22_Validation ==
    (facade.act.pc # "idle" /\ facade.act.inst # "none") =>
        LET a == facade.act
            inst == facade.insts[a.inst]
            nSettled == IF a.pc = "inStep" THEN Len(a.log) - 1 ELSE Len(a.log)
            StepIn(k) == Rejects(a.log[k].fn.inputSchema, a.log[k].input)
            Produced(k) == UserFn(a.log[k].fn.fn, a.log[k].input)
            StepOut(k) ==
                /\ ~StepIn(k)
                /\ Produced(k).kind = "return"
                /\ Rejects(a.log[k].fn.outputSchema, Produced(k).value)
            nCalled == IF nSettled > 0 /\ StepIn(nSettled)
                       THEN nSettled - 1 ELSE nSettled
            result == a.outcome.value
        IN  \* step instances
            /\ Len(a.fnLog) = nCalled
            /\ \A k \in 1..nCalled : a.fnLog[k] = a.log[k].input
            /\ \A k \in 1..nSettled :
                  /\ (StepIn(k) \/ StepOut(k)) =>
                        /\ k = Len(a.log)
                        /\ Len(a.returns) = k - 1
                        /\ a.pc = "done"
                        /\ ~result.success
                        /\ result.data = Undefined
                        /\ IsValidationError(result.error,
                               IF StepIn(k) THEN "Input" ELSE "Output")
                  /\ (~StepIn(k) /\ ~StepOut(k)
                          /\ Produced(k).kind = "return") =>
                        /\ Len(a.returns) >= k
                        /\ a.returns[k] = Produced(k).value
            \* the workflow made by createWorkflow
            /\ inst.hasExecute =>
                  /\ Rejects(inst.inputSchema, a.input) =>
                        /\ a.pc = "done"
                        /\ a.log = <<>>
                        /\ a.fnLog = <<>>
                        /\ ~result.success
                        /\ IsValidationError(result.error, "Workflow input")
                  /\ ~Rejects(inst.inputSchema, a.input) =>
                        \/ Len(a.log) > 0
                        \/ StepsArray(facade, a.inst) = <<>>
                  /\ (a.pc = "done" /\ ~StepThrew
                          /\ ~Rejects(inst.inputSchema, a.input)) =>
                        IF Rejects(inst.outputSchema, FinalValue)
                        THEN /\ ~result.success
                             /\ result.data = Undefined
                             /\ IsValidationError(result.error,
                                                  "Workflow output")
                        ELSE /\ result.success
                             /\ result.data = FinalValue

\* The workflow has an input validator that the input fails: no step is
\* called.
C22_Witness ==
    /\ ActDone
    /\ facade.act.inst = "i1"
    /\ facade.insts["i1"].inputSchema = "number"
    /\ facade.act.input = "a"
    /\ Len(StepsArray(facade, "i1")) = 3
    /\ facade.act.log = <<>>
    /\ IsValidationError(facade.act.outcome.value.error, "Workflow input")

\* A step has an output validator that its output fails.
C22_WitnessStepOutput ==
    /\ ActDone
    /\ Len(facade.act.log) = 2
    /\ LastCalled.fn = StringOutputStep
    /\ facade.act.fnLog = <<"1", "2">>
    /\ facade.act.returns = <<"2">>
    /\ IsValidationError(facade.act.outcome.value.error, "Output")

\* No validator anywhere: a value of any type passes.
C22_WitnessNoValidator ==
    /\ ActDone
    /\ facade.act.inst = "i1"
    /\ facade.insts["i1"].inputSchema = "none"
    /\ facade.insts["i1"].outputSchema = "none"
    /\ StepsArray(facade, "i1") = <<>>
    /\ facade.act.input = "a"
    /\ facade.act.outcome.value = CreateSuccessResult("a")

(***************************************************************************)
(* Properties of repeated and overlapping Workflow.execute calls           *)
(***************************************************************************)
\* C23: on a Workflow whose steps are deterministic, any two finished
\* execute calls with the same initialInput returned the same success flag
\* and the same sequence of step results, whether one ran after the other
\* or while the other was in flight; and getName() is the name given at
\* construction.
C23_NoStateBetweenCalls ==
    /\ \A c, d \in DOMAIN calls :
          (IsDone(c) /\ IsDone(d) /\ calls[c].wf = calls[d].wf
              /\ calls[c].arg = calls[d].arg) =>
              /\ calls[c].outcome.kind = "return"
              /\ calls[c].outcome.value.success = calls[d].outcome.value.success
              /\ calls[c].outcome.value.results = calls[d].outcome.value.results
              /\ calls[c].outcome.value.results =
                    Alone(wfs[calls[c].wf], calls[c].arg).results
    /\ GetName("w1") = "A"

\* Two calls with the same input, the second started while the first was
\* suspended in its first step, both finished with two results.
C23_Witness ==
    /\ IsDone(1)
    /\ IsDone(2)
    /\ calls[1].arg = "0"
    /\ calls[2].arg = "0"
    /\ Len(calls[1].outcome.value.results) = 2
    /\ calls[1].outcome.value.results = calls[2].outcome.value.results
    /\ GetName("w1") = "A"

\* A call is started while another is in flight.
C23_WitnessInFlight ==
    /\ calls[1].pc = "inRun"
    /\ calls[1].idx = 1
    /\ calls[2].pc = "inRun"
    /\ calls[2].idx = 2
    /\ calls[1].arg = calls[2].arg

C24_WitnessAdded ==
    /\ shell.pc = "done"
    /\ shell.constructed = DefaultCommands
    /\ shell.added = {"terraform"}
    /\ shell.input.command = "terraform"
    /\ shell.processes = <<[command |-> "terraform", allowed |-> TRUE]>>
    /\ shell.out.value.success

\* A command added only after the call was refused.
C24_WitnessAddedLater ==
    /\ shell.pc = "done"
    /\ shell.input.command = "curl"
    /\ "curl" \in shell.allowlist
    /\ ~shell.allowedAtCall
    /\ shell.processes = <<>>

(***************************************************************************)
(* Properties of FileUtils                                                 *)
(***************************************************************************)
\* The directory `base` itself or a path located inside it.
InsideDir(p, base) ==
    /\ Len(base) <= Len(p)
    /\ \A i \in DOMAIN base : p[i] = base[i]

\* C25: for every filePath that resolves to neither baseDir nor a path
\* inside the directory baseDir, the operation fails with "Path traversal
\* detected" and hands no path to the file system; every path an
\* operation hands to the file system is baseDir or inside it.
C25_PathTraversal ==
    files.pc = "done" =>
        /\ ~InsideDir(Resolve(files.filePath), Resolve(files.baseDir)) =>
              /\ files.out.kind = "throw"
              /\ files.out.thrown.text[1] = "Path traversal detected: "
              /\ files.touched = {}
        /\ \A p \in files.touched : InsideDir(p, Resolve(files.baseDir))

\* The first half of C25 alone: validatePath throws for every filePath
\* that resolves outside baseDir.
C25_ValidatePathThrows ==
    (files.pc = "done"
        /\ ~InsideDir(Resolve(files.filePath), Resolve(files.baseDir))) =>
        files.out = ValidatePath(files.filePath, files.baseDir)
            /\ files.out.kind = "throw"

\* What validatePath does provide: a path whose resolved string does not
\* begin with the resolved string of baseDir is refused before any
\* file-system call.
C25_RefusesOtherPrefixes ==
    (files.pc = "done"
        /\ ~StartsWith(PathString(Resolve(files.filePath)),
                       PathString(Resolve(files.baseDir)))) =>
        /\ files.out.kind = "throw"
        /\ files.out.thrown.text[1] = "Path traversal detected: "
        /\ files.touched = {}

C25_RefusesWitness ==
    /\ files.pc = "done"
    /\ files.op = "readFileSafe"
    /\ files.baseDir = [absolute |-> FALSE, segs |-> <<>>]
    /\ files.filePath = [absolute |-> FALSE, segs |-> <<DotDot, DotDot>>]
    /\ files.out.kind = "throw"
    /\ files.touched = {}

\* C26: runWorkflow(id) on a RunnerAdapter executes steps of the
\* definition that was registered under id, in their order: a later
\* addStep on the registered Workflow does not change them.
C26_RegisteredReadOnly ==
    \A c \in DOMAIN calls :
        (Started(c) /\ calls[c].via = "adapter" /\ calls[c].wf # "none") =>
            LET registered == wfs[calls[c].wf].stepsWhenRegistered
            IN  /\ Len(calls[c].execLog) <= Len(registered)
                /\ \A k \in DOMAIN calls[c].execLog :
                      k <= Len(registered) =>
                          calls[c].execLog[k].step = registered[k]

\* The part of C26 the code provides: the registered Workflow object is
\* frozen, and the registry entry is the object itself.
C26_FrozenObject ==
    \A k \in DOMAIN adapterReg : wfs[adapterReg[k].value].frozen

C26_FrozenObjectWitness ==
    /\ MapHas(adapterReg, "A")
    /\ wfs["w1"].frozen
    /\ Len(wfs["w1"].steps) > Len(wfs["w1"].stepsWhenRegistered)

\* C28: when the k-th config of runWorkflowsSequential is the first that
\* names a workflow that is not registered, entry k is reached only after
\* every entry before it has run the steps it runs alone and resolved, no
\* entry after k is ever started, and the call, once entry k is reached,
\* rejects with the not-found error of entry k: it never resolves.
C28_SequentialUnknown ==
    (batch.kind = "sequential" /\ \E i \in Entries : ~Registered(i)) =>
        LET k == FirstUnknown
        IN  /\ \A j \in Slots : j > k => ~Started(j)
            /\ Started(k) =>
                  /\ calls[k].outcome =
                        Throw(NotFoundError(batch.via, batch.configs[k].key))
                  /\ calls[k].execLog = <<>>
                  /\ Len(batch.results) = k - 1
                  /\ \A i \in 1..(k - 1) :
                        /\ IsDone(i)
                        /\ calls[i].outcome.kind = "return"
                        /\ calls[i].execLog =
                              Alone(wfs[calls[i].wf], calls[i].arg).log
                        /\ batch.results[i] = calls[i].outcome.value
            /\ batch.pc = "done" =>
                  /\ Started(k)
                  /\ batch.outcome =
                        Throw(NotFoundError(batch.via, batch.configs[k].key))

\* The second config is unknown: the first workflow has run, the call has
\* rejected, and one result had been collected.
C28_Witness ==
    /\ batch.kind = "sequential"
    /\ batch.pc = "done"
    /\ batch.via = "adapter"
    /\ batch.configs = <<[key |-> "A", input |-> "1"],
                         [key |-> "X", input |-> Undefined]>>
    /\ Len(calls[1].execLog) = 1
    /\ Len(batch.results) = 1
    /\ batch.outcome = Throw(AdapterNotFound("X"))

\* The first config is unknown: the registered workflow listed after it is
\* never started.
C28_WitnessFirst ==
    /\ batch.kind = "sequential"
    /\ batch.pc = "done"
    /\ Len(batch.configs) = 2
    /\ batch.configs[1].key = "X"
    /\ batch.configs[2].key = "A"
    /\ ~Started(2)
    /\ batch.outcome.kind = "throw"

\* C30: in RunnerAdapter.runWorkflowsSequential, when an entry succeeds
\* with data d and the config of the next entry gives no input, the next
\* entry receives d, whatever d is.
C30_NextReceivesData ==
    batch.kind = "sequential" =>
        \A i \in DOMAIN batch.results :
            (/\ i + 1 <= Len(batch.passed)
             /\ batch.results[i].success
             /\ batch.configs[i + 1].input = Undefined)
            => batch.passed[i + 1] = batch.results[i].data

\* The same for data that is truthy: such data is passed on.
C30_TruthyDataPassedOn ==
    batch.kind = "sequential" =>
        \A i \in DOMAIN batch.results :
            (/\ i + 1 <= Len(batch.passed)
             /\ batch.results[i].success
             /\ IsTruthy(batch.results[i].data)
             /\ batch.configs[i + 1].input = Undefined)
            => batch.passed[i + 1] = batch.results[i].data

\* A state in which an entry has received the data of an older entry: the
\* first entry succeeded with 2, the second with 0, and the third, whose
\* config gives no input, is passed 2.
C30_OlderDataReceived ==
    /\ batch.kind = "sequential"
    /\ Len(batch.results) >= 2
    /\ Len(batch.passed) >= 3
    /\ batch.results[1].success /\ batch.results[1].data = "2"
    /\ batch.results[2].success /\ batch.results[2].data = "0"
    /\ batch.configs[3].input = Undefined
    /\ batch.passed[3] = "2"

\* C29: a Workflow.execute call runs only steps that were in the workflow
\* when the call started, in their order, and collects one result for
\* each: a step added with addStep while the call is suspended is not run
\* by it.
C29_StepsAtCallStart ==
    \A c \in DOMAIN calls :
        Started(c) =>
            /\ Len(calls[c].execLog) <= Len(calls[c].stepsAtStart)
            /\ \A k \in DOMAIN calls[c].execLog :
                  k <= Len(calls[c].stepsAtStart) =>
                      calls[c].execLog[k].step = calls[c].stepsAtStart[k]
            /\ Len(calls[c].results) <= Len(calls[c].stepsAtStart)

====
